---- MODULE Spec2Model ----
(***************************************************************************)
(* BusTub storage core: LRU replacer, buffer pool manager instance and the *)
(* extendible hash table that keeps its directory and bucket pages in the  *)
(* buffer pool.  Every operator below is translated from the C++ source;   *)
(* collaborators whose code is not part of the sources (the disk manager,  *)
(* the hash function, HashTableDirectoryPage::FindFirstBucket) are         *)
(* modelled by their documented interface.                                 *)
(***************************************************************************)
EXTENDS Integers, Sequences, FiniteSets, TLC

VARIABLES
    bpm,        \* the BufferPoolManagerInstance object (and the disk behind it)
    new_ids,    \* history: the page ids returned by NewPage, in call order
    last_unpin, \* history: page id -> the bytes the page had at its last unpin,
                \*          for the pages that were not pinned again since
    unflagged,  \* history: pages modified and not yet unpinned with is_dirty
    ht,         \* the ExtendibleHashTable object and the position of its call
    M,          \* history: (key,value) -> successful inserts minus removes
    lru,        \* an LRUReplacer object used on its own, with the variable its
                \* caller passes to Victim and, as history, the frames it
                \* holds in the order of the Unpin calls that inserted them
    pbpm,       \* the ParallelBufferPoolManager object
    bpage,      \* a HashTableBucketPage used on its own
    flush,      \* the thread that is inside FlushAllPgsImp: its position and
                \* the copy of the page table entry its loop variable holds
    threads,    \* the threads that call one hash table: per thread the call
                \* it is in, its position and its local variables
    latches     \* table_latch_ and the latch of every Page of the pool: per
                \* thread the number of times it holds the latch in each mode

vars == <<bpm, new_ids, last_unpin, unflagged, ht, M, lru, pbpm, bpage, flush,
          threads, latches>>

bpmVars == <<bpm, new_ids, last_unpin, unflagged>>
htVars == <<ht, M>>
lruVars == <<lru>>
pbpmVars == <<pbpm>>
pageVars == <<bpage>>
flushVars == <<flush>>
thrVars == <<threads, latches>>

(***************************************************************************)
(* Bounds of the model.                                                    *)
(***************************************************************************)
\* frames of the buffer pool instance checked on its own
PoolSize == 2
\* NewPage calls made on the instance checked on its own
MaxPages == 3
\* the instance checked on its own is instance InstanceIndex of NumInstances
NumInstances == 2
InstanceIndex == 1
\* distinct non-zero byte contents a client writes into a page
MaxData == 1
\* pins held on one page at a time
MaxPins == 2

\* frames of the buffer pool the hash table is built on: 2 up to HTPoolSize
HTPoolSize == 3
\* keys 0..MaxKey and values 0..MaxValue are inserted, removed and looked up
MaxKey == 3
MaxValue == 1
\* the parallel buffer pool: instances, frames of each, NewPage calls made
ParNumInstances == 2
ParPoolSize == 2
ParMaxNews == 4

\* the table called by several threads: the readers, the keys
\* 0..MaxStaticKey they look up (each stored with one value, the key itself,
\* so that the static pairs fit into the first bucket), and the keys
\* MaxStaticKey+1..MaxWriterKey of the writer
NumReaders == 2
MaxStaticKey == 0
MaxWriterKey == 2

\* NewPage calls made while FlushAllPages is under way
FlushMaxPages == 2
\* threads that call NewPage of one parallel buffer pool, and calls of each
ParNumCallers == 2
ParCallsEach == 3

\* frames of the LRU replacer checked on its own
LRUPages == 4

\* slots of a bucket page and entries of the directory page (scaled down)
BUCKET_ARRAY_SIZE == 2
DIRECTORY_ARRAY_SIZE == 4

INVALID_PAGE_ID == -1
NULLPTR == -1

\* Page::ResetMemory: a page of zero bytes
ZeroPage == [kind |-> "zero"]

RawPage(d) == [kind |-> "raw", bytes |-> d]

(***************************************************************************)
(* DiskManager (external): a map page id -> bytes; a page never written    *)
(* reads as zero bytes.                                                    *)
(***************************************************************************)
WritePage(disk, page_id, data) ==
    [x \in (DOMAIN disk) \cup {page_id} |-> IF x = page_id THEN data ELSE disk[x]]

ReadPage(disk, page_id) ==
    IF page_id \in DOMAIN disk THEN disk[page_id] ELSE ZeroPage

(***************************************************************************)
(* LRUReplacer: a circular doubly linked list threaded through frames_     *)
(* (first = the neighbour towards the head, second = the neighbour towards *)
(* the tail of recency), head_ the most recently unpinned frame, size_ the *)
(* number of linked frames, pinned_frames_ the frames NOT in the list.     *)
(***************************************************************************)
LRUReplacer(num_pages) ==
    [size_ |-> 0,
     head_ |-> num_pages,
     frames_ |-> [i \in 0..(num_pages - 1) |-> [first |-> i, second |-> i]],
     pinned_frames_ |-> 0..(num_pages - 1)]

FramesSize(r) == Cardinality(DOMAIN r.frames_)

\* the most recently unpinned frame is handed out
Victim_TakesHead(r) ==
    IF r.size_ = 0
    THEN [replacer |-> r, ok |-> FALSE, frame_id |-> NULLPTR]
    ELSE LET size == r.size_ - 1
             head == r.head_
             prev == r.frames_[head].first
             next == r.frames_[head].second
             f1 == [r.frames_ EXCEPT ![prev].second = next]
             f2 == [f1 EXCEPT ![next].first = prev]
             f3 == [f2 EXCEPT ![head] = [first |-> head, second |-> head]]
         IN [replacer |-> [size_ |-> size,
                           head_ |-> IF size = 0 THEN FramesSize(r) ELSE next,
                           frames_ |-> f3,
                           pinned_frames_ |-> r.pinned_frames_ \cup {head}],
             ok |-> TRUE,
             frame_id |-> head]

\* frame_id is what Victim writes through its parameter, NULLPTR if it writes
\* nothing
Victim(r) ==
    IF r.size_ = 0
    THEN [replacer |-> r, ok |-> FALSE, frame_id |-> NULLPTR]
    ELSE LET size == r.size_ - 1
             tail == r.frames_[r.head_].first
             ntail == r.frames_[tail].first
             f1 == [r.frames_ EXCEPT ![r.head_].first = ntail]
             f2 == [f1 EXCEPT ![ntail].second = r.head_]
             f3 == [f2 EXCEPT ![tail] = [first |-> tail, second |-> tail]]
         IN [replacer |-> [size_ |-> size,
                           head_ |-> IF size = 0 THEN FramesSize(r) ELSE r.head_,
                           frames_ |-> f3,
                           pinned_frames_ |-> r.pinned_frames_ \cup {tail}],
             ok |-> TRUE,
             frame_id |-> tail]

Pin(r, frame_id) ==
    IF frame_id \in r.pinned_frames_
    THEN r
    ELSE LET size == r.size_ - 1
             prev == r.frames_[frame_id].first
             next == r.frames_[frame_id].second
             f1 == [r.frames_ EXCEPT ![prev].second = next]
             f2 == [f1 EXCEPT ![next].first = prev]
             f3 == [f2 EXCEPT ![frame_id] = [first |-> frame_id, second |-> frame_id]]
         IN [size_ |-> size,
             head_ |-> IF r.head_ = frame_id
                       THEN (IF size > 0 THEN next ELSE FramesSize(r) + 1)
                       ELSE r.head_,
             frames_ |-> f3,
             pinned_frames_ |-> r.pinned_frames_ \cup {frame_id}]

\* Unpin of a frame that is in the list moves it to the head
Unpin_Refreshes(r, frame_id) ==
    LET p == Pin(r, frame_id)
        linked == p.head_ < FramesSize(p)
        tail == p.frames_[p.head_].first
        f1 == [p.frames_ EXCEPT ![tail].second = frame_id]
        f2 == [f1 EXCEPT ![p.head_].first = frame_id]
        f3 == [f2 EXCEPT ![frame_id] = [first |-> tail, second |-> p.head_]]
    IN [size_ |-> p.size_ + 1,
        head_ |-> frame_id,
        frames_ |-> IF linked THEN f3 ELSE p.frames_,
        pinned_frames_ |-> p.pinned_frames_ \ {frame_id}]

Unpin(r, frame_id) ==
    IF frame_id \notin r.pinned_frames_
    THEN r
    ELSE LET linked == r.head_ < FramesSize(r)
             tail == r.frames_[r.head_].first
             f1 == [r.frames_ EXCEPT ![tail].second = frame_id]
             f2 == [f1 EXCEPT ![r.head_].first = frame_id]
             f3 == [f2 EXCEPT ![frame_id] = [first |-> tail, second |-> r.head_]]
         IN [size_ |-> r.size_ + 1,
             head_ |-> frame_id,
             frames_ |-> IF linked THEN f3 ELSE r.frames_,
             pinned_frames_ |-> r.pinned_frames_ \ {frame_id}]

Size(r) == r.size_

(***************************************************************************)
(* BufferPoolManagerInstance.  pages_ is the frame array, page_table_ a    *)
(* map whose domain is the set of resident page ids, free_list_ a list of  *)
(* frame ids, disk_manager_ the pages of the disk behind the instance.     *)
(* Each operation holds latch_ from its first to its last statement, so    *)
(* each is one step.  An operation yields the new object, what it returns  *)
(* (a Page* is the index of its frame, nullptr is NULLPTR) and the ids of  *)
(* the pages it wrote to disk.                                             *)
(***************************************************************************)
Page(page_id, pin_count, is_dirty, data) ==
    [page_id_ |-> page_id, pin_count_ |-> pin_count, is_dirty_ |-> is_dirty, data_ |-> data]

BufferPoolManagerInstance(pool_size, num_instances, instance_index) ==
    [pool_size_ |-> pool_size,
     num_instances_ |-> num_instances,
     instance_index_ |-> instance_index,
     next_page_id_ |-> instance_index,
     pages_ |-> [f \in 0..(pool_size - 1) |-> Page(INVALID_PAGE_ID, 0, FALSE, ZeroPage)],
     page_table_ |-> <<>>,
     free_list_ |-> [i \in 1..pool_size |-> i - 1],
     replacer_ |-> LRUReplacer(pool_size),
     disk_manager_ |-> <<>>]

Erase(page_table, page_id) ==
    [p \in (DOMAIN page_table) \ {page_id} |-> page_table[p]]

Put(page_table, page_id, frame_id) ==
    [p \in (DOMAIN page_table) \cup {page_id} |->
        IF p = page_id THEN frame_id ELSE page_table[p]]

\* FindFrame asking the replacer before the free list
FindFrame_ReplacerFirst(s) ==
    LET v == Victim(s.replacer_)
    IN IF v.ok
       THEN [ok |-> TRUE, frame_id |-> v.frame_id,
             free_list |-> s.free_list_,
             replacer |-> Pin(v.replacer, v.frame_id)]
       ELSE IF s.free_list_ # <<>>
            THEN [ok |-> TRUE, frame_id |-> Head(s.free_list_),
                  free_list |-> Tail(s.free_list_),
                  replacer |-> Pin(s.replacer_, Head(s.free_list_))]
            ELSE [ok |-> FALSE, frame_id |-> NULLPTR,
                  free_list |-> s.free_list_, replacer |-> s.replacer_]

\* the frame NewPgImp and FetchPgImp take: the front of the free list, else
\* the replacer's victim, else none; Replacer::Pin is then called on it
FindFrame(s) ==
    IF s.free_list_ # <<>>
    THEN [ok |-> TRUE, frame_id |-> Head(s.free_list_),
          free_list |-> Tail(s.free_list_),
          replacer |-> Pin(s.replacer_, Head(s.free_list_))]
    ELSE LET v == Victim(s.replacer_)
         IN IF v.ok
            THEN [ok |-> TRUE, frame_id |-> v.frame_id,
                  free_list |-> s.free_list_,
                  replacer |-> Pin(v.replacer, v.frame_id)]
            ELSE [ok |-> FALSE, frame_id |-> NULLPTR,
                  free_list |-> s.free_list_, replacer |-> s.replacer_]

\* the write-back of the page a reused frame holds
WriteBack(s, frame_id) ==
    IF s.pages_[frame_id].is_dirty_
    THEN [disk |-> WritePage(s.disk_manager_, s.pages_[frame_id].page_id_,
                             s.pages_[frame_id].data_),
          writes |-> <<s.pages_[frame_id].page_id_>>]
    ELSE [disk |-> s.disk_manager_, writes |-> <<>>]

\* AllocatePage advancing the counter by one instead of num_instances_
AllocatePage_ByOne(s) ==
    [page_id |-> s.next_page_id_, next_page_id |-> s.next_page_id_ + 1]

AllocatePage(s) ==
    [page_id |-> s.next_page_id_, next_page_id |-> s.next_page_id_ + s.num_instances_]

\* NewPgImp leaving the reused frame's old entry in the page table
NewPgImp_KeepsOldEntry(s) ==
    LET t == FindFrame(s)
        f == t.frame_id
        wb == WriteBack(s, f)
        a == AllocatePage(s)
    IN IF ~t.ok
       THEN [bpm |-> s, ret |-> NULLPTR, page_id |-> INVALID_PAGE_ID, writes |-> <<>>]
       ELSE [bpm |-> [s EXCEPT
                        !.free_list_ = t.free_list,
                        !.replacer_ = t.replacer,
                        !.disk_manager_ = wb.disk,
                        !.page_table_ = Put(@, a.page_id, f),
                        !.next_page_id_ = a.next_page_id,
                        !.pages_[f] = Page(a.page_id, 1, FALSE, ZeroPage)],
             ret |-> f, page_id |-> a.page_id, writes |-> wb.writes]

NewPgImp(s) ==
    LET t == FindFrame(s)
        f == t.frame_id
        wb == WriteBack(s, f)
        a == AllocatePage(s)
    IN IF ~t.ok
       THEN [bpm |-> s, ret |-> NULLPTR, page_id |-> INVALID_PAGE_ID, writes |-> <<>>]
       ELSE [bpm |-> [s EXCEPT
                        !.free_list_ = t.free_list,
                        !.replacer_ = t.replacer,
                        !.disk_manager_ = wb.disk,
                        !.page_table_ = Put(Erase(@, s.pages_[f].page_id_), a.page_id, f),
                        !.next_page_id_ = a.next_page_id,
                        !.pages_[f] = Page(a.page_id, 1, FALSE, ZeroPage)],
             ret |-> f, page_id |-> a.page_id, writes |-> wb.writes]

\* FetchPgImp reusing a frame without writing its dirty page back
FetchPgImp_NoWriteBack(s, page_id) ==
    IF page_id \in DOMAIN s.page_table_
    THEN LET f == s.page_table_[page_id]
         IN [bpm |-> [s EXCEPT !.pages_[f].pin_count_ = @ + 1,
                               !.replacer_ = Pin(@, f)],
             ret |-> f, writes |-> <<>>]
    ELSE LET t == FindFrame(s)
             f == t.frame_id
         IN IF ~t.ok
            THEN [bpm |-> s, ret |-> NULLPTR, writes |-> <<>>]
            ELSE [bpm |-> [s EXCEPT
                             !.free_list_ = t.free_list,
                             !.replacer_ = t.replacer,
                             !.page_table_ = Put(Erase(@, s.pages_[f].page_id_), page_id, f),
                             !.pages_[f] = Page(page_id, 1, FALSE,
                                                ReadPage(s.disk_manager_, page_id))],
                  ret |-> f, writes |-> <<>>]

FetchPgImp(s, page_id) ==
    IF page_id \in DOMAIN s.page_table_
    THEN LET f == s.page_table_[page_id]
         IN [bpm |-> [s EXCEPT !.pages_[f].pin_count_ = @ + 1,
                               !.replacer_ = Pin(@, f)],
             ret |-> f, writes |-> <<>>]
    ELSE LET t == FindFrame(s)
             f == t.frame_id
             wb == WriteBack(s, f)
         IN IF ~t.ok
            THEN [bpm |-> s, ret |-> NULLPTR, writes |-> <<>>]
            ELSE [bpm |-> [s EXCEPT
                             !.free_list_ = t.free_list,
                             !.replacer_ = t.replacer,
                             !.disk_manager_ = wb.disk,
                             !.page_table_ = Put(Erase(@, s.pages_[f].page_id_), page_id, f),
                             !.pages_[f] = Page(page_id, 1, FALSE, ReadPage(wb.disk, page_id))],
                  ret |-> f, writes |-> wb.writes]

\* DeletePgImp without the pin count test
DeletePgImp_NoPinCheck(s, page_id) ==
    IF page_id \notin DOMAIN s.page_table_
    THEN [bpm |-> s, ret |-> TRUE, writes |-> <<>>]
    ELSE LET f == s.page_table_[page_id]
         IN [bpm |-> [s EXCEPT
                        !.disk_manager_ = IF s.pages_[f].is_dirty_
                                          THEN WritePage(@, page_id, s.pages_[f].data_)
                                          ELSE @,
                        !.page_table_ = Erase(@, page_id),
                        !.pages_[f] = Page(INVALID_PAGE_ID, 0, FALSE, ZeroPage),
                        !.replacer_ = Pin(@, f),
                        !.free_list_ = Append(@, f)],
             ret |-> TRUE,
             writes |-> IF s.pages_[f].is_dirty_ THEN <<page_id>> ELSE <<>>]

DeletePgImp(s, page_id) ==
    IF page_id \notin DOMAIN s.page_table_
    THEN [bpm |-> s, ret |-> TRUE, writes |-> <<>>]
    ELSE LET f == s.page_table_[page_id]
         IN IF s.pages_[f].pin_count_ > 0
            THEN [bpm |-> s, ret |-> FALSE, writes |-> <<>>]
            ELSE [bpm |-> [s EXCEPT
                             !.disk_manager_ = IF s.pages_[f].is_dirty_
                                               THEN WritePage(@, page_id, s.pages_[f].data_)
                                               ELSE @,
                             !.page_table_ = Erase(@, page_id),
                             !.pages_[f] = Page(INVALID_PAGE_ID, 0, FALSE, ZeroPage),
                             !.replacer_ = Pin(@, f),
                             !.free_list_ = Append(@, f)],
                  ret |-> TRUE,
                  writes |-> IF s.pages_[f].is_dirty_ THEN <<page_id>> ELSE <<>>]

\* UnpinPgImp that never tells the replacer
UnpinPgImp_NoReplacer(s, page_id, is_dirty) ==
    IF page_id \notin DOMAIN s.page_table_
    THEN [bpm |-> s, ret |-> FALSE, writes |-> <<>>]
    ELSE LET f == s.page_table_[page_id]
             s1 == IF is_dirty THEN [s EXCEPT !.pages_[f].is_dirty_ = is_dirty] ELSE s
         IN IF s1.pages_[f].pin_count_ <= 0
            THEN [bpm |-> s1, ret |-> FALSE, writes |-> <<>>]
            ELSE [bpm |-> [s1 EXCEPT !.pages_[f].pin_count_ = @ - 1],
                  ret |-> TRUE, writes |-> <<>>]

\* UnpinPgImp without the test for a pin count of zero
UnpinPgImp_NoPinCheck(s, page_id, is_dirty) ==
    IF page_id \notin DOMAIN s.page_table_
    THEN [bpm |-> s, ret |-> FALSE, writes |-> <<>>]
    ELSE LET f == s.page_table_[page_id]
             s1 == IF is_dirty THEN [s EXCEPT !.pages_[f].is_dirty_ = is_dirty] ELSE s
         IN [bpm |-> [s1 EXCEPT
                        !.pages_[f].pin_count_ = @ - 1,
                        !.replacer_ = IF s1.pages_[f].pin_count_ - 1 = 0
                                      THEN Unpin(@, f) ELSE @],
             ret |-> TRUE, writes |-> <<>>]

\* is_dirty_ = is_dirty, whatever is_dirty is
UnpinPgImp_AssignsDirty(s, page_id, is_dirty) ==
    IF page_id \notin DOMAIN s.page_table_
    THEN [bpm |-> s, ret |-> FALSE, writes |-> <<>>]
    ELSE LET f == s.page_table_[page_id]
             s1 == [s EXCEPT !.pages_[f].is_dirty_ = is_dirty]
         IN IF s1.pages_[f].pin_count_ <= 0
            THEN [bpm |-> s1, ret |-> FALSE, writes |-> <<>>]
            ELSE [bpm |-> [s1 EXCEPT
                             !.pages_[f].pin_count_ = @ - 1,
                             !.replacer_ = IF s1.pages_[f].pin_count_ - 1 = 0
                                           THEN Unpin(@, f) ELSE @],
                  ret |-> TRUE, writes |-> <<>>]

UnpinPgImp(s, page_id, is_dirty) ==
    IF page_id \notin DOMAIN s.page_table_
    THEN [bpm |-> s, ret |-> FALSE, writes |-> <<>>]
    ELSE LET f == s.page_table_[page_id]
             s1 == IF is_dirty THEN [s EXCEPT !.pages_[f].is_dirty_ = is_dirty] ELSE s
         IN IF s1.pages_[f].pin_count_ <= 0
            THEN [bpm |-> s1, ret |-> FALSE, writes |-> <<>>]
            ELSE [bpm |-> [s1 EXCEPT
                             !.pages_[f].pin_count_ = @ - 1,
                             !.replacer_ = IF s1.pages_[f].pin_count_ - 1 = 0
                                           THEN Unpin(@, f) ELSE @],
                  ret |-> TRUE, writes |-> <<>>]

\* FlushPgImp writing only a dirty page
FlushPgImp_OnlyDirty(s, page_id) ==
    IF page_id \notin DOMAIN s.page_table_
    THEN [bpm |-> s, ret |-> FALSE, writes |-> <<>>]
    ELSE LET f == s.page_table_[page_id]
         IN IF s.pages_[f].is_dirty_
            THEN [bpm |-> [s EXCEPT
                             !.disk_manager_ = WritePage(@, page_id, s.pages_[f].data_),
                             !.pages_[f].is_dirty_ = FALSE],
                  ret |-> TRUE, writes |-> <<page_id>>]
            ELSE [bpm |-> s, ret |-> TRUE, writes |-> <<>>]

FlushPgImp(s, page_id) ==
    IF page_id \notin DOMAIN s.page_table_
    THEN [bpm |-> s, ret |-> FALSE, writes |-> <<>>]
    ELSE LET f == s.page_table_[page_id]
         IN [bpm |-> [s EXCEPT
                        !.disk_manager_ = WritePage(@, page_id, s.pages_[f].data_),
                        !.pages_[f].is_dirty_ = FALSE],
             ret |-> TRUE, writes |-> <<page_id>>]

\* FlushAllPgsImp called with no other call in progress: every resident page
\* is written under its id and marked clean
RECURSIVE FlushAllFrom(_, _)
FlushAllFrom(s, ids) ==
    IF ids = {}
    THEN s
    ELSE LET page_id == CHOOSE p \in ids : \A q \in ids : p <= q
             f == s.page_table_[page_id]
         IN FlushAllFrom([s EXCEPT
                            !.disk_manager_ = WritePage(@, page_id, s.pages_[f].data_),
                            !.pages_[f].is_dirty_ = FALSE],
                         ids \ {page_id})

FlushAllPgsImp(s) ==
    [bpm |-> FlushAllFrom(s, DOMAIN s.page_table_), ret |-> TRUE,
     writes |-> <<>>]

(***************************************************************************)
(* Bit operations on unsigned integers.                                    *)
(***************************************************************************)
(***************************************************************************)
(* ParallelBufferPoolManager: bpms_ holds the instances, NULLBPM where     *)
(* none was created yet.  The instances share one disk manager; instance   *)
(* i only touches pages whose id is i modulo num_instances_, so its        *)
(* disk_manager_ field is its part of that disk.  An operation yields the  *)
(* new object, whether its assert passed, and what it returns.             *)
(***************************************************************************)
\* the one element of a set: Only({e(x) : x \in {v}}) is e with x standing
\* for the value of v, the way a statement uses the result of the one before
Only(S) == CHOOSE x \in S : TRUE

\* the nullptr of a BufferPoolManager*
NULLBPM == [nullptr |-> TRUE]

ParallelBufferPoolManager(num_instances, pool_size) ==
    [num_instances_ |-> num_instances,
     start_instance_ |-> 0,
     pool_size_ |-> pool_size,
     bpms_ |-> [i \in 0..(num_instances - 1) |-> NULLBPM]]

\* return bpms_[i]->Operation(..), r being what the instance yields
Forwarded(p, i, r) ==
    [pbpm |-> [p EXCEPT !.bpms_[i] = r.bpm], asserts |-> TRUE, ret |-> r.ret]

AssertFailed(p) == [pbpm |-> p, asserts |-> FALSE, ret |-> NULLPTR]

ParallelFetchPgImp(p, page_id) ==
    LET i == page_id % p.num_instances_
    IN IF ~(i < p.start_instance_ \/ p.bpms_[i] # NULLBPM)
       THEN AssertFailed(p)
       ELSE Only({Forwarded(p, i, r) : r \in {FetchPgImp(p.bpms_[i], page_id)}})

ParallelUnpinPgImp(p, page_id, is_dirty) ==
    LET i == page_id % p.num_instances_
    IN IF ~(i < p.start_instance_ /\ p.bpms_[i] # NULLBPM)
       THEN AssertFailed(p)
       ELSE Only({Forwarded(p, i, r) :
                     r \in {UnpinPgImp(p.bpms_[i], page_id, is_dirty)}})

ParallelFlushPgImp(p, page_id) ==
    LET i == page_id % p.num_instances_
    IN IF ~(page_id # INVALID_PAGE_ID /\ i < p.start_instance_ /\ p.bpms_[i] # NULLBPM)
       THEN AssertFailed(p)
       ELSE Only({Forwarded(p, i, r) : r \in {FlushPgImp(p.bpms_[i], page_id)}})

\* the loop of lines 88-93, from instance i on
RECURSIVE ParallelNewPgFor(_, _)
ParallelNewPgFor(p, i) ==
    IF i < p.num_instances_
    THEN Only({IF r.ret # NULLPTR
               THEN [pbpm |-> [p EXCEPT !.bpms_[i] = r.bpm],
                     ret |-> r.ret, page_id |-> r.page_id]
               ELSE ParallelNewPgFor([p EXCEPT !.bpms_[i] = r.bpm], i + 1) :
                  r \in {NewPgImp(p.bpms_[i])}})
    ELSE [pbpm |-> p, ret |-> NULLPTR, page_id |-> INVALID_PAGE_ID]

\* the instance at start_instance_, created if there is none yet
InstanceAtStart(p) ==
    IF p.bpms_[p.start_instance_] = NULLBPM
    THEN BufferPoolManagerInstance(p.pool_size_, p.num_instances_, p.start_instance_)
    ELSE p.bpms_[p.start_instance_]

\* NewPgImp: the loop of lines 76-86, then that of lines 88-93
RECURSIVE ParallelNewPgImp(_)
ParallelNewPgImp(p) ==
    IF p.start_instance_ < p.num_instances_
    THEN Only({IF r.ret # NULLPTR
               THEN [pbpm |-> [p EXCEPT !.bpms_[p.start_instance_] = r.bpm],
                     ret |-> r.ret, page_id |-> r.page_id]
               ELSE ParallelNewPgImp([p EXCEPT !.bpms_[p.start_instance_] = r.bpm,
                                               !.start_instance_ = @ + 1]) :
                  r \in {NewPgImp(InstanceAtStart(p))}})
    ELSE ParallelNewPgFor(p, 0)

ParallelDeletePgImp(p, page_id) ==
    LET i == page_id % p.num_instances_
    IN IF ~(i < p.start_instance_ \/ p.bpms_[i] # NULLBPM)
       THEN AssertFailed(p)
       ELSE Only({Forwarded(p, i, r) : r \in {DeletePgImp(p.bpms_[i], page_id)}})

ParallelFlushAllPgsImp(p) ==
    [p EXCEPT !.bpms_ = [i \in DOMAIN @ |->
                           IF @[i] = NULLBPM THEN @[i] ELSE FlushAllPgsImp(@[i]).bpm]]

RECURSIVE BitAnd(_, _)
BitAnd(a, b) ==
    IF a = 0 \/ b = 0
    THEN 0
    ELSE (a % 2) * (b % 2) + 2 * BitAnd(a \div 2, b \div 2)

RECURSIVE BitXor(_, _)
BitXor(a, b) ==
    IF a = 0 THEN b
    ELSE IF b = 0 THEN a
    ELSE ((a + b) % 2) + 2 * BitXor(a \div 2, b \div 2)

(***************************************************************************)
(* HashTableBucketPage: the bytes of a page read as occupied_ and          *)
(* readable_ bitmaps followed by array_ of (key, value) pairs.  A page of  *)
(* zero bytes is the bucket with no bit set.                               *)
(***************************************************************************)
Slots == 0..(BUCKET_ARRAY_SIZE - 1)

\* the bytes of one bitmap: (BUCKET_ARRAY_SIZE - 1) / 8 + 1
BitmapBytes == ((BUCKET_ARRAY_SIZE - 1) \div 8) + 1

ZeroBucket ==
    [kind |-> "bucket",
     occupied_ |-> [i \in Slots |-> FALSE],
     readable_ |-> [i \in Slots |-> FALSE],
     array_ |-> [i \in Slots |-> [first |-> 0, second |-> 0]]]

\* reinterpret_cast<HASH_TABLE_BUCKET_TYPE *>(page)
AsBucket(data) ==
    CASE data.kind = "bucket" -> data
      [] data.kind = "zero" -> ZeroBucket

KeyAt(b, bucket_idx) == b.array_[bucket_idx].first

ValueAt(b, bucket_idx) == b.array_[bucket_idx].second

\* bit bucket_idx of occupied_: the bits past BUCKET_ARRAY_SIZE in the last
\* byte are never set, and the bytes after occupied_ are those of readable_
IsOccupied(b, bucket_idx) ==
    IF bucket_idx < BUCKET_ARRAY_SIZE THEN b.occupied_[bucket_idx]
    ELSE IF bucket_idx < 8 * BitmapBytes THEN FALSE
    ELSE IF bucket_idx - 8 * BitmapBytes < BUCKET_ARRAY_SIZE
         THEN b.readable_[bucket_idx - 8 * BitmapBytes]
         ELSE FALSE

IsReadable(b, bucket_idx) ==
    IF bucket_idx < BUCKET_ARRAY_SIZE THEN b.readable_[bucket_idx] ELSE FALSE

\* RemoveAt clearing the occupied bit along with the readable bit
RemoveAt_ClearsOccupied(b, bucket_idx) ==
    [b EXCEPT !.readable_[bucket_idx] = FALSE, !.occupied_[bucket_idx] = FALSE]

RemoveAt(b, bucket_idx) == [b EXCEPT !.readable_[bucket_idx] = FALSE]

RECURSIVE GetValueFrom(_, _, _)
GetValueFrom(b, key, i) ==
    IF i >= BUCKET_ARRAY_SIZE THEN <<>>
    ELSE IF ~b.occupied_[i] THEN <<>>
    ELSE (IF b.readable_[i] /\ key = b.array_[i].first
          THEN <<b.array_[i].second>> ELSE <<>>)
         \o GetValueFrom(b, key, i + 1)

\* HashTableBucketPage::GetValue, called with an empty result vector
BucketGetValue(b, key) ==
    [result |-> GetValueFrom(b, key, 0), ret |-> GetValueFrom(b, key, 0) # <<>>]

\* the scan of HashTableBucketPage::Insert: a duplicate, or the slot to use
RECURSIVE InsertScan(_, _, _, _, _)
InsertScan(b, key, value, i, available_record_idx) ==
    IF i >= BUCKET_ARRAY_SIZE
    THEN [dup |-> FALSE, available_record_idx |-> available_record_idx]
    ELSE IF ~b.occupied_[i]
    THEN [dup |-> FALSE,
          available_record_idx |-> IF available_record_idx = BUCKET_ARRAY_SIZE
                                   THEN i ELSE available_record_idx]
    ELSE IF b.readable_[i] /\ key = b.array_[i].first /\ value = b.array_[i].second
    THEN [dup |-> TRUE, available_record_idx |-> available_record_idx]
    ELSE InsertScan(b, key, value, i + 1,
                    IF available_record_idx = BUCKET_ARRAY_SIZE /\ ~b.readable_[i]
                    THEN i ELSE available_record_idx)

BucketInsert(b, key, value) ==
    LET sc == InsertScan(b, key, value, 0, BUCKET_ARRAY_SIZE)
        a == sc.available_record_idx
    IN IF sc.dup \/ a = BUCKET_ARRAY_SIZE
       THEN [bucket |-> b, ret |-> FALSE]
       ELSE [bucket |-> [b EXCEPT !.array_[a] = [first |-> key, second |-> value],
                                  !.occupied_[a] = TRUE,
                                  !.readable_[a] = TRUE],
             ret |-> TRUE]

\* HashTableBucketPage::Remove clearing the occupied bit instead of the
\* readable bit
RECURSIVE BucketRemove_ClearsOccupied(_, _, _, _)
BucketRemove_ClearsOccupied(b, key, value, i) ==
    IF i >= BUCKET_ARRAY_SIZE THEN [bucket |-> b, ret |-> FALSE]
    ELSE IF ~b.occupied_[i] THEN [bucket |-> b, ret |-> FALSE]
    ELSE IF b.readable_[i] /\ key = b.array_[i].first /\ value = b.array_[i].second
    THEN [bucket |-> [b EXCEPT !.occupied_[i] = FALSE, !.readable_[i] = FALSE],
          ret |-> TRUE]
    ELSE BucketRemove_ClearsOccupied(b, key, value, i + 1)

\* HashTableBucketPage::Remove, its scan started at slot i
RECURSIVE BucketRemove(_, _, _, _)
BucketRemove(b, key, value, i) ==
    IF i >= BUCKET_ARRAY_SIZE THEN [bucket |-> b, ret |-> FALSE]
    ELSE IF ~b.occupied_[i] THEN [bucket |-> b, ret |-> FALSE]
    ELSE IF b.readable_[i] /\ key = b.array_[i].first /\ value = b.array_[i].second
    THEN [bucket |-> [b EXCEPT !.readable_[i] = FALSE], ret |-> TRUE]
    ELSE BucketRemove(b, key, value, i + 1)

IsFull(b) == \A i \in Slots : ~(~IsOccupied(b, i) \/ (IsOccupied(b, i) /\ ~IsReadable(b, i)))

\* counts the occupied bits
NumReadable(b) == Cardinality({i \in Slots : b.occupied_[i]})

\* readable_[0] == 0: the first byte of the bitmap only
IsEmpty(b) == \A i \in Slots : i < 8 => ~b.readable_[i]

(***************************************************************************)
(* HashTableDirectoryPage: the bytes of a page read as page_id_, lsn_,     *)
(* global_depth_, local_depths_ (one byte each) and bucket_page_ids_.      *)
(***************************************************************************)
DirSlots == 0..(DIRECTORY_ARRAY_SIZE - 1)

ZeroDirectory ==
    [kind |-> "dir", page_id_ |-> 0, lsn_ |-> 0, global_depth_ |-> 0,
     local_depths_ |-> [i \in DirSlots |-> 0],
     bucket_page_ids_ |-> [i \in DirSlots |-> 0]]

\* reinterpret_cast<HashTableDirectoryPage *>(page)
AsDirectory(data) ==
    CASE data.kind = "dir" -> data
      [] data.kind = "zero" -> ZeroDirectory

SetPageId(d, page_id) == [d EXCEPT !.page_id_ = page_id]

GetGlobalDepth(d) == d.global_depth_

GetGlobalDepthMask(d) == 2 ^ d.global_depth_ - 1

IncrGlobalDepth(d) == [d EXCEPT !.global_depth_ = @ + 1]

DecrGlobalDepth(d) == [d EXCEPT !.global_depth_ = @ - 1]

GetBucketPageId(d, bucket_idx) == d.bucket_page_ids_[bucket_idx]

SetBucketPageId(d, bucket_idx, bucket_page_id) ==
    [d EXCEPT !.bucket_page_ids_[bucket_idx] = bucket_page_id]

DirSize(d) == 2 ^ d.global_depth_

CanShrink(d) ==
    \A i \in 0..(DirSize(d) - 1) : ~(d.local_depths_[i] >= d.global_depth_)

GetLocalDepth(d, bucket_idx) == d.local_depths_[bucket_idx]

SetLocalDepth(d, bucket_idx, local_depth) ==
    [d EXCEPT !.local_depths_[bucket_idx] = local_depth % 256]

\* local_depths_ is an array of uint8_t
IncrLocalDepth(d, bucket_idx) ==
    [d EXCEPT !.local_depths_[bucket_idx] = (@ + 1) % 256]

DecrLocalDepth(d, bucket_idx) ==
    [d EXCEPT !.local_depths_[bucket_idx] = (@ + 255) % 256]

GetLocalHighBit(d, bucket_idx) ==
    LET sibling_bucket_idx == BitAnd(GetGlobalDepthMask(d) \div 2, bucket_idx)
    IN IF sibling_bucket_idx = bucket_idx /\ d.global_depth_ >= 1
       THEN sibling_bucket_idx + 2 ^ (d.global_depth_ - 1)
       ELSE sibling_bucket_idx

\* HashTableDirectoryPage::FindFirstBucket (its code is not part of the
\* sources): the first index of the directory that holds the page id
FindFirstBucket(d, bucket_page_id) ==
    LET holds == {i \in 0..(DirSize(d) - 1) : d.bucket_page_ids_[i] = bucket_page_id}
    IN IF holds = {} THEN DirSize(d)
       ELSE CHOOSE i \in holds : \A j \in holds : i <= j

\* TRUE iff no assert of VerifyIntegrity fails
VerifyIntegrity(d) ==
    LET idxs == 0..(DirSize(d) - 1)
        page_id_to_count == [p \in {d.bucket_page_ids_[i] : i \in idxs} |->
                                Cardinality({i \in idxs : d.bucket_page_ids_[i] = p})]
        page_id_to_ld == [p \in {d.bucket_page_ids_[i] : i \in idxs} |->
                             d.local_depths_[CHOOSE i \in idxs :
                                 /\ d.bucket_page_ids_[i] = p
                                 /\ \A j \in idxs : d.bucket_page_ids_[j] = p => i <= j]]
    IN /\ \A curr_idx \in idxs :
             /\ d.local_depths_[curr_idx] <= d.global_depth_
             /\ d.local_depths_[curr_idx] = page_id_to_ld[d.bucket_page_ids_[curr_idx]]
       /\ \A p \in DOMAIN page_id_to_count :
             page_id_to_count[p] = 2 ^ (d.global_depth_ - page_id_to_ld[p])

(***************************************************************************)
(* ExtendibleHashTable over a buffer pool s.  A directory or bucket        *)
(* pointer is the frame the page was fetched into; its fields are read     *)
(* from and written to the frame's bytes.  The operations run one at a     *)
(* time.  An operation yields the buffer pool it leaves, whether it has    *)
(* returned (pc "idle"), is inside the loop of SplitInsert (pc             *)
(* "SplitInsert", with the locals of the call) or has failed an assert (pc *)
(* "aborted"), and the value it returns.                                   *)
(***************************************************************************)
\* HashFunction::GetHash narrowed to 32 bits; the function is supplied by the
\* caller of the constructor
Hash(key) == key \div 2

KeyToDirectoryIndex(key, dir) == BitAnd(Hash(key), GetGlobalDepthMask(dir))

KeyToPageId(key, dir) == GetBucketPageId(dir, KeyToDirectoryIndex(key, dir))

Data(s, frame_id) == s.pages_[frame_id].data_

SetData(s, frame_id, data) == [s EXCEPT !.pages_[frame_id].data_ = data]

\* Page::GetPageId of the page in a frame
GetPageId(s, frame_id) == s.pages_[frame_id].page_id_

\* a call of the table at work: the buffer pool, the table's member
\* directory_page_id_, whether every assert passed so far, and the page
\* pointers the code holds in its local variables
Ctx(s, t) ==
    [bpm |-> s, directory_page_id_ |-> t.directory_page_id_, asserts |-> TRUE,
     dir_page |-> NULLPTR, bucket_page |-> NULLPTR,
     split_bucket_page |-> NULLPTR, merge_bucket_page |-> NULLPTR,
     split_bucket_page_id |-> INVALID_PAGE_ID]

\* *dir_page, *bucket_page, *split_bucket_page, *merge_bucket_page
DirPage(c) == AsDirectory(Data(c.bpm, c.dir_page))
BucketPage(c) == AsBucket(Data(c.bpm, c.bucket_page))
SplitBucketPage(c) == AsBucket(Data(c.bpm, c.split_bucket_page))
MergeBucketPage(c) == AsBucket(Data(c.bpm, c.merge_bucket_page))

SetDirPage(c, d) == [c EXCEPT !.bpm = SetData(@, c.dir_page, d)]
SetBucketPage(c, b) == [c EXCEPT !.bpm = SetData(@, c.bucket_page, b)]
SetSplitBucketPage(c, b) == [c EXCEPT !.bpm = SetData(@, c.split_bucket_page, b)]

\* dir_page = FetchDirectoryPage()
FetchDirectoryPage(c) ==
    LET r == FetchPgImp(c.bpm, c.directory_page_id_)
    IN [c EXCEPT !.bpm = r.bpm, !.dir_page = r.ret]

\* bucket_page = FetchBucketPage(bucket_page_id)
FetchBucketPage(c, bucket_page_id) ==
    LET r == FetchPgImp(c.bpm, bucket_page_id)
    IN [c EXCEPT !.bpm = r.bpm, !.bucket_page = r.ret]

\* assert(buffer_pool_manager_->UnpinPage(page_id, is_dirty))
AssertUnpinPage(c, page_id, is_dirty) ==
    LET r == UnpinPgImp(c.bpm, page_id, is_dirty)
    IN [c EXCEPT !.bpm = r.bpm, !.asserts = @ /\ r.ret]

AssertThat(c, cond) == [c EXCEPT !.asserts = @ /\ cond]

\* the two statements every operation starts with: the directory page and
\* the bucket page of the key are fetched
FetchPagesOfKey(c, key) ==
    Only({FetchBucketPage(c1, KeyToPageId(key, DirPage(c1))) :
             c1 \in {FetchDirectoryPage(c)}})

\* the directory page is left pinned
UnpinDirAndBucket_KeepsDir(c, dir_is_dirty, bucket_is_dirty) ==
    AssertUnpinPage(c, GetPageId(c.bpm, c.bucket_page), bucket_is_dirty)

\* UnpinPage(dir_page->GetPageId(), ..) and UnpinPage(bucket_page->GetPageId(), ..)
UnpinDirAndBucket(c, dir_is_dirty, bucket_is_dirty) ==
    Only({AssertUnpinPage(c1, GetPageId(c.bpm, c.bucket_page), bucket_is_dirty) :
             c1 \in {AssertUnpinPage(c, DirPage(c).page_id_, dir_is_dirty)}})

NoLocals ==
    [key |-> 0, value |-> 0, bucket_idx |-> 0, dir_page |-> NULLPTR,
     bucket_page |-> NULLPTR, split_bucket_page |-> NULLPTR,
     split_bucket_page_id |-> INVALID_PAGE_ID]

\* the operation returns ret, unless an assert has failed
Returned(c, ret) ==
    [bpm |-> c.bpm, pc |-> IF c.asserts THEN "idle" ELSE "aborted", ret |-> ret,
     locals |-> NoLocals]

\* SplitInsert arrives at its loop (line 199)
InLoop(c, key, value) ==
    [bpm |-> c.bpm, pc |-> IF c.asserts THEN "SplitInsert" ELSE "aborted",
     ret |-> FALSE,
     locals |-> IF c.asserts
                THEN [key |-> key, value |-> value,
                      bucket_idx |-> FindFirstBucket(DirPage(c),
                                                     GetPageId(c.bpm, c.bucket_page)),
                      dir_page |-> c.dir_page,
                      bucket_page |-> c.bucket_page,
                      split_bucket_page |-> c.split_bucket_page,
                      split_bucket_page_id |-> c.split_bucket_page_id]
                ELSE NoLocals]

\* the constructor from line 44 on: the entry of the first bucket is written
\* into the directory page
ExtendibleHashTableDir(c, bucket_page_id) ==
    AssertUnpinPage(
       SetDirPage(AssertThat(c, GetGlobalDepth(DirPage(c)) = 0),
                  SetLocalDepth(SetBucketPageId(SetPageId(DirPage(c), c.directory_page_id_),
                                                0, bucket_page_id), 0, 0)),
       c.directory_page_id_, TRUE)

\* the constructor from line 38 on: the first bucket page
ExtendibleHashTableBucket(c, n2) ==
    Only({ExtendibleHashTableDir(c2, n2.page_id) :
             c2 \in {Only({FetchDirectoryPage(c1) :
                              c1 \in {AssertUnpinPage(
                                         AssertThat([c EXCEPT !.bpm = n2.bpm],
                                                    n2.ret # NULLPTR /\ n2.page_id = 1),
                                         n2.page_id, FALSE)}})}})

\* the constructor from the first NewPage on
ExtendibleHashTableNew(c) ==
    Only({ExtendibleHashTableBucket(c, n2) : n2 \in {NewPgImp(c.bpm)}})

\* the constructor: n1 is what NewPage returns for the directory page
ExtendibleHashTable(s) ==
    Only({Only({ExtendibleHashTableNew(c1) :
                   c1 \in {AssertUnpinPage(
                              AssertThat(Ctx(n1.bpm, [directory_page_id_ |-> n1.page_id]),
                                         n1.ret # NULLPTR /\ n1.page_id = 0),
                              n1.page_id, FALSE)}}) :
             n1 \in {NewPgImp(s)}})

\* GetValue from line 107 on
GetValueFetched(c, key) ==
    Only({[bpm |-> c1.bpm, asserts |-> c1.asserts,
           ret |-> BucketGetValue(BucketPage(c), key).ret,
           result |-> BucketGetValue(BucketPage(c), key).result] :
             c1 \in {UnpinDirAndBucket(c, FALSE, FALSE)}})

GetValue(c, key) ==
    Only({GetValueFetched(c1, key) : c1 \in {FetchPagesOfKey(c, key)}})

\* lines 172-176: the upper half of the doubled directory is copied from the
\* lower half
GrowDirectory(d) ==
    LET half == DirSize(d) \div 2
    IN [d EXCEPT
          !.bucket_page_ids_ = [j \in DOMAIN @ |->
              IF j >= half /\ j < DirSize(d) THEN @[j - half] ELSE @[j]],
          !.local_depths_ = [j \in DOMAIN @ |->
              IF j >= half /\ j < DirSize(d) THEN @[j - half] ELSE @[j]]]

\* one pass of the loop of SplitInsert advancing by at least one index
SplitInsertLoop_Advances(dir, bucket_idx, split_bucket_page_id) ==
    LET split_bucket_idx == BitXor(bucket_idx, GetLocalHighBit(dir, bucket_idx))
        d3 == IncrLocalDepth(
                 IncrLocalDepth(
                    SetBucketPageId(dir, split_bucket_idx, split_bucket_page_id),
                    bucket_idx),
                 split_bucket_idx)
    IN [dir |-> d3,
        bucket_idx |-> bucket_idx + (IF GetLocalHighBit(d3, bucket_idx) = 0
                                     THEN 1 ELSE GetLocalHighBit(d3, bucket_idx))]

\* one pass of the loop of SplitInsert (lines 200-213)
SplitInsertLoop(dir, bucket_idx, split_bucket_page_id) ==
    LET split_bucket_idx == BitXor(bucket_idx, GetLocalHighBit(dir, bucket_idx))
        d3 == IncrLocalDepth(
                 IncrLocalDepth(
                    SetBucketPageId(dir, split_bucket_idx, split_bucket_page_id),
                    bucket_idx),
                 split_bucket_idx)
    IN [dir |-> d3, bucket_idx |-> bucket_idx + GetLocalHighBit(d3, bucket_idx)]

\* split_bucket_page = FetchBucketPage(split_bucket_page_id)
FetchSplitBucketPage(c) ==
    LET r == FetchPgImp(c.bpm, c.split_bucket_page_id)
    IN [c EXCEPT !.bpm = r.bpm, !.split_bucket_page = r.ret]

\* SplitInsert from line 183 on: n is what NewPage returns
SplitInsertNewPage(c, n, key, value) ==
    IF n.ret = NULLPTR
    THEN Only({Returned(AssertThat(c1, VerifyIntegrity(DirPage(c))), FALSE) :
                  c1 \in {UnpinDirAndBucket(c, TRUE, FALSE)}})
    ELSE Only({InLoop(c2, key, value) :
                  c2 \in {Only({FetchSplitBucketPage(c1) :
                                   c1 \in {AssertUnpinPage(
                                              AssertThat([c EXCEPT
                                                            !.bpm = n.bpm,
                                                            !.split_bucket_page_id = n.page_id],
                                                         n.page_id # INVALID_PAGE_ID),
                                              n.page_id, FALSE)}})}})

\* SplitInsert from line 181 on
SplitInsertGrown(c, key, value) ==
    Only({SplitInsertNewPage(c, n, key, value) : n \in {NewPgImp(c.bpm)}})

\* lines 168-178: the directory doubles if the bucket's local depth equals
\* the global depth
SplitInsertGrow(c, bucket_idx) ==
    IF GetGlobalDepth(DirPage(c)) = GetLocalDepth(DirPage(c), bucket_idx)
    THEN SetDirPage(AssertThat(c, GetGlobalDepth(IncrGlobalDepth(DirPage(c)))
                                    > GetLocalDepth(DirPage(c), bucket_idx)),
                    GrowDirectory(IncrGlobalDepth(DirPage(c))))
    ELSE c

\* SplitInsert from line 159 on
SplitInsertFetched(c, key, value) ==
    IF GetLocalHighBit(DirPage(c), KeyToDirectoryIndex(key, DirPage(c)))
          > DIRECTORY_ARRAY_SIZE
    THEN Returned(UnpinDirAndBucket(c, FALSE, FALSE), FALSE)
    ELSE Only({SplitInsertGrown(c1, key, value) :
                  c1 \in {SplitInsertGrow(c, KeyToDirectoryIndex(key, DirPage(c)))}})

\* SplitInsert up to the first test of its loop
SplitInsert(c, key, value) ==
    Only({SplitInsertFetched(c1, key, value) : c1 \in {FetchPagesOfKey(c, key)}})

\* Insert from line 132 on
InsertFetched(c, key, value) ==
    IF ~IsFull(BucketPage(c))
    THEN Only({Only({Returned(c1, ins.ret) :
                        c1 \in {UnpinDirAndBucket(SetBucketPage(c, ins.bucket),
                                                  FALSE, TRUE)}}) :
                  ins \in {BucketInsert(BucketPage(c), key, value)}})
    ELSE Only({SplitInsert(c1, key, value) :
                  c1 \in {UnpinDirAndBucket(c, FALSE, FALSE)}})

Insert(c, key, value) ==
    Only({InsertFetched(c1, key, value) : c1 \in {FetchPagesOfKey(c, key)}})

\* lines 221-232: the records of the old bucket whose key no longer maps to
\* it are moved to the new bucket
RECURSIVE Rehash(_, _, _, _, _)
Rehash(dir, bucket, split_bucket, bucket_page_id, record_i) ==
    IF ~IsOccupied(bucket, record_i)
    THEN [bucket |-> bucket, split_bucket |-> split_bucket]
    ELSE IF ~IsReadable(bucket, record_i)
    THEN Rehash(dir, bucket, split_bucket, bucket_page_id, record_i + 1)
    ELSE IF KeyToPageId(KeyAt(bucket, record_i), dir) = bucket_page_id
    THEN Rehash(dir, bucket, split_bucket, bucket_page_id, record_i + 1)
    ELSE Rehash(dir, RemoveAt(bucket, record_i),
                BucketInsert(split_bucket, KeyAt(bucket, record_i),
                             ValueAt(bucket, record_i)).bucket,
                bucket_page_id, record_i + 1)

\* lines 236-238
UnpinAfterSplit(c) ==
    Only({AssertUnpinPage(c1, GetPageId(c.bpm, c.split_bucket_page), TRUE) :
             c1 \in {UnpinDirAndBucket(c, TRUE, TRUE)}})

\* SplitInsert from the exit of its loop: the records are moved, the three
\* pages unpinned and Insert is called again
SplitInsertRest(c, key, value) ==
    Only({Only({Insert(c1, key, value) :
                   c1 \in {UnpinAfterSplit(
                              SetSplitBucketPage(SetBucketPage(c, r.bucket),
                                                 r.split_bucket))}}) :
             r \in {Rehash(DirPage(c), BucketPage(c), SplitBucketPage(c),
                           GetPageId(c.bpm, c.bucket_page), 0)}})

\* lines 321-339: the loop of Merge
RECURSIVE MergeLoop(_, _, _, _)
MergeLoop(dir, bucket_idx, bucket_is_empty, merge_is_empty) ==
    IF ~(bucket_idx < DirSize(dir))
    THEN [dir |-> dir, asserts |-> TRUE]
    ELSE LET merge_bucket_idx ==
                 BitXor(bucket_idx, GetLocalHighBit(dir, bucket_idx) \div 2)
             d1 == IF bucket_is_empty
                   THEN SetBucketPageId(dir, bucket_idx,
                                        GetBucketPageId(dir, merge_bucket_idx))
                   ELSE SetBucketPageId(dir, merge_bucket_idx,
                                        GetBucketPageId(dir, bucket_idx))
             d3 == DecrLocalDepth(DecrLocalDepth(d1, bucket_idx), merge_bucket_idx)
             rest == MergeLoop(d3, bucket_idx + 2 * GetLocalHighBit(d3, bucket_idx),
                               bucket_is_empty, merge_is_empty)
         IN [dir |-> rest.dir,
             asserts |-> (bucket_is_empty \/ merge_is_empty) /\ rest.asserts]

\* lines 346-364: the upper half of the directory is reset and the global
\* depth decreased
ShrinkDirectory(d) ==
    LET half == DirSize(d) \div 2
        upper == {i \in DOMAIN d.bucket_page_ids_ : i >= half /\ i < DirSize(d)}
    IN [dir |-> DecrGlobalDepth(
                   [d EXCEPT
                      !.bucket_page_ids_ = [j \in DOMAIN @ |-> IF j \in upper THEN 0 ELSE @[j]],
                      !.local_depths_ = [j \in DOMAIN @ |-> IF j \in upper THEN 0 ELSE @[j]]]),
        asserts |-> \A i \in upper : d.bucket_page_ids_[i] = d.bucket_page_ids_[i - half]]

\* merge_bucket_idx of lines 265, 296 and 323
MergeBucketIdx(dir, bucket_idx) ==
    BitXor(bucket_idx, GetLocalHighBit(dir, bucket_idx) \div 2)

\* lines 298-299
FetchMergePages(c, key) ==
    LET bucket_idx == KeyToDirectoryIndex(key, DirPage(c))
    IN Only({Only({[fb EXCEPT !.bpm = r.bpm, !.merge_bucket_page = r.ret] :
                      r \in {FetchPgImp(fb.bpm,
                                        GetBucketPageId(DirPage(c),
                                           MergeBucketIdx(DirPage(c), bucket_idx)))}}) :
                fb \in {FetchBucketPage(c, GetBucketPageId(DirPage(c), bucket_idx))}})

\* lines 312-313 and 343-344
UnpinBucketAndMerge(c) ==
    Only({AssertUnpinPage(c1, GetPageId(c.bpm, c.merge_bucket_page), FALSE) :
             c1 \in {AssertUnpinPage(c, GetPageId(c.bpm, c.bucket_page), FALSE)}})

\* lines 320-339
MergeRewrite(c, key) ==
    LET bucket_idx == KeyToDirectoryIndex(key, DirPage(c))
    IN Only({SetDirPage(AssertThat(c, l.asserts), l.dir) :
                l \in {MergeLoop(DirPage(c),
                                 FindFirstBucket(DirPage(c),
                                                 GetBucketPageId(DirPage(c), bucket_idx)),
                                 IsEmpty(BucketPage(c)), IsEmpty(MergeBucketPage(c)))}})

\* lines 346-366
MergeShrink(c) ==
    IF CanShrink(DirPage(c)) /\ GetGlobalDepth(DirPage(c)) > 1
    THEN Only({AssertUnpinPage(SetDirPage(AssertThat(c, sh.asserts), sh.dir),
                               DirPage(c).page_id_, TRUE) :
                  sh \in {ShrinkDirectory(DirPage(c))}})
    ELSE AssertUnpinPage(c, DirPage(c).page_id_, TRUE)

\* Merge from line 307 on; the directory page stays pinned on the early
\* return
RECURSIVE Merge(_, _, _)
MergeFetched(c, key, value) ==
    LET bucket_idx == KeyToDirectoryIndex(key, DirPage(c))
        merge_bucket_idx == MergeBucketIdx(DirPage(c), bucket_idx)
    IN IF \/ (~IsEmpty(BucketPage(c)) /\ ~IsEmpty(MergeBucketPage(c)))
          \/ GetLocalDepth(DirPage(c), bucket_idx) <= 0
          \/ GetLocalDepth(DirPage(c), bucket_idx)
                # GetLocalDepth(DirPage(c), merge_bucket_idx)
       THEN UnpinBucketAndMerge(c)
       ELSE Only({Only({Only({Merge(c3, key, value) :
                                 c3 \in {MergeShrink(c2)}}) :
                           c2 \in {UnpinBucketAndMerge(c1)}}) :
                     c1 \in {MergeRewrite(c, key)}})

Merge(c, key, value) ==
    Only({Only({MergeFetched(c2, key, value) :
                   c2 \in {FetchMergePages(c1, key)}}) :
             c1 \in {FetchDirectoryPage(c)}})

\* Remove from line 279 on: m is the call after Merge, if it was called, and
\* dir_page and bucket_page are still those Remove fetched
RemoveUnpin(c, m, ret) ==
    Only({Returned(c1, ret) :
             c1 \in {UnpinDirAndBucket([m EXCEPT !.dir_page = c.dir_page,
                                                 !.bucket_page = c.bucket_page],
                                       TRUE, ret)}})

\* Remove from line 260 on
RemoveFetched(c, key, value) ==
    LET bucket_idx == KeyToDirectoryIndex(key, DirPage(c))
        merge_bucket_idx == MergeBucketIdx(DirPage(c), bucket_idx)
    IN Only({Only({Only({RemoveUnpin(c, m, rem.ret) :
                            m \in {IF /\ IsEmpty(BucketPage(c1))
                                      /\ GetLocalDepth(DirPage(c), bucket_idx) > 0
                                      /\ GetLocalDepth(DirPage(c), bucket_idx)
                                            = GetLocalDepth(DirPage(c), merge_bucket_idx)
                                   THEN Merge(c1, key, value)
                                   ELSE c1}}) :
                      c1 \in {SetBucketPage(c, rem.bucket)}}) :
                rem \in {BucketRemove(BucketPage(c), key, value, 0)}})

Remove(c, key, value) ==
    Only({RemoveFetched(c1, key, value) : c1 \in {FetchPagesOfKey(c, key)}})

(***************************************************************************)
(* The buffer pool instance on its own: a client calls its operations one  *)
(* at a time and may change the bytes of a page it has pinned.  Page ids   *)
(* passed to FetchPage are ids NewPage has returned; the other operations  *)
(* are also called with ids not yet allocated.                             *)
(***************************************************************************)
NoTable == [pc |-> "none"]
NoReplacer == [pc |-> "none"]
NoPool == [pc |-> "none"]
NoBucket == [pc |-> "none"]
NoFlush == [pc |-> "none"]
NoThreads == [pc |-> "none"]

OwnIds == {bpm.instance_index_ + k * bpm.num_instances_ : k \in 0..(MaxPages - 1)}

Init ==
    /\ bpm = BufferPoolManagerInstance(PoolSize, NumInstances, InstanceIndex)
    /\ new_ids = <<>>
    /\ last_unpin = <<>>
    /\ unflagged = {}
    /\ ht = NoTable
    /\ M = <<>>
    /\ lru = NoReplacer
    /\ pbpm = NoPool
    /\ bpage = NoBucket
    /\ flush = NoFlush
    /\ threads = NoThreads
    /\ latches = NoThreads

NewPage ==
    /\ Len(new_ids) < MaxPages
    /\ LET r == NewPgImp(bpm)
       IN /\ bpm' = r.bpm
          /\ new_ids' = IF r.ret # NULLPTR THEN Append(new_ids, r.page_id) ELSE new_ids
    /\ UNCHANGED <<last_unpin, unflagged, htVars, lruVars, pbpmVars, pageVars,
                                                                      flushVars, thrVars>>

FetchPage(page_id) ==
    /\ page_id < bpm.next_page_id_
    /\ page_id \in DOMAIN bpm.page_table_ =>
          bpm.pages_[bpm.page_table_[page_id]].pin_count_ < MaxPins
    /\ LET r == FetchPgImp(bpm, page_id)
       IN /\ bpm' = r.bpm
          /\ last_unpin' = IF r.ret # NULLPTR THEN Erase(last_unpin, page_id)
                                              ELSE last_unpin
    /\ UNCHANGED <<new_ids, unflagged, htVars, lruVars, pbpmVars, pageVars,
                                                                      flushVars, thrVars>>

UnpinPage(page_id, is_dirty) ==
    /\ LET r == UnpinPgImp(bpm, page_id, is_dirty)
       IN /\ bpm' = r.bpm
          /\ last_unpin' =
                IF r.ret /\ r.bpm.pages_[bpm.page_table_[page_id]].pin_count_ = 0
                THEN Put(last_unpin, page_id, bpm.pages_[bpm.page_table_[page_id]].data_)
                ELSE last_unpin
    /\ unflagged' = IF page_id \in DOMAIN bpm.page_table_ /\ is_dirty
                    THEN unflagged \ {page_id} ELSE unflagged
    /\ UNCHANGED <<new_ids, htVars, lruVars, pbpmVars, pageVars,
                                                                      flushVars, thrVars>>

FlushPage(page_id) ==
    /\ LET r == FlushPgImp(bpm, page_id)
       IN /\ bpm' = r.bpm
    /\ UNCHANGED <<new_ids, last_unpin, unflagged, htVars, lruVars, pbpmVars, pageVars,
                                                                      flushVars, thrVars>>

FlushAllPages ==
    /\ LET r == FlushAllPgsImp(bpm)
       IN /\ bpm' = r.bpm
    /\ UNCHANGED <<new_ids, last_unpin, unflagged, htVars, lruVars, pbpmVars, pageVars,
                                                                      flushVars, thrVars>>

DeletePage(page_id) ==
    /\ LET r == DeletePgImp(bpm, page_id)
       IN /\ bpm' = r.bpm
    /\ UNCHANGED <<new_ids, last_unpin, unflagged, htVars, lruVars, pbpmVars, pageVars,
                                                                      flushVars, thrVars>>

\* the holder of a pin writes through the Page* it was given
WriteData(page_id, d) ==
    /\ page_id \in DOMAIN bpm.page_table_
    /\ bpm.pages_[bpm.page_table_[page_id]].pin_count_ > 0
    /\ bpm' = [bpm EXCEPT !.pages_[bpm.page_table_[page_id]].data_ = RawPage(d)]
    /\ unflagged' = unflagged \cup {page_id}
    /\ UNCHANGED <<new_ids, last_unpin, htVars, lruVars, pbpmVars, pageVars,
                                                                      flushVars, thrVars>>

Next ==
    \/ NewPage
    \/ \E page_id \in OwnIds : FetchPage(page_id)
    \/ \E page_id \in OwnIds : \E is_dirty \in BOOLEAN : UnpinPage(page_id, is_dirty)
    \/ \E page_id \in OwnIds : FlushPage(page_id)
    \/ FlushAllPages
    \/ \E page_id \in OwnIds : DeletePage(page_id)
    \/ \E page_id \in OwnIds : \E d \in 1..MaxData : WriteData(page_id, d)

Spec == Init /\ [][Next]_vars

(***************************************************************************)
(* The hash table on a buffer pool of its own: a client calls Insert,      *)
(* Remove and GetValue one at a time; a call that has entered the loop of  *)
(* SplitInsert proceeds one pass at a time.  M counts, per pair, the       *)
(* Insert calls that returned true minus the Remove calls that returned    *)
(* true.                                                                   *)
(***************************************************************************)
Keys == 0..MaxKey
Values == 0..MaxValue

\* the call that is inside the loop of SplitInsert
CtxOfLocals(s, t) ==
    [Ctx(s, t) EXCEPT !.dir_page = t.locals.dir_page,
                      !.bucket_page = t.locals.bucket_page,
                      !.split_bucket_page = t.locals.split_bucket_page,
                      !.split_bucket_page_id = t.locals.split_bucket_page_id]

HTInit ==
    /\ \E pool_size \in 2..HTPoolSize :
          \E c \in {ExtendibleHashTable(BufferPoolManagerInstance(pool_size, 1, 0))} :
             /\ c.asserts
             /\ bpm = c.bpm
             /\ ht = [pc |-> "idle", directory_page_id_ |-> c.directory_page_id_,
                      locals |-> NoLocals]
    /\ M = [p \in Keys \X Values |-> 0]
    /\ new_ids = <<>>
    /\ last_unpin = <<>>
    /\ unflagged = {}
    /\ lru = NoReplacer
    /\ pbpm = NoPool
    /\ bpage = NoBucket
    /\ flush = NoFlush
    /\ threads = NoThreads
    /\ latches = NoThreads

\* the call of Insert(key, value) has come to r
InsertComesTo(r, key, value) ==
    /\ bpm' = r.bpm
    /\ ht' = [ht EXCEPT !.pc = r.pc, !.locals = r.locals]
    /\ M' = IF r.pc = "idle" /\ r.ret THEN [M EXCEPT ![<<key, value>>] = @ + 1] ELSE M
    /\ UNCHANGED <<new_ids, last_unpin, unflagged, lruVars, pbpmVars, pageVars,
                                                                      flushVars, thrVars>>

HTInsert(key, value) ==
    /\ ht.pc = "idle"
    /\ \E r \in {Insert(Ctx(bpm, ht), key, value)} : InsertComesTo(r, key, value)

SplitInsertStep ==
    /\ ht.pc = "SplitInsert"
    /\ LET dir == AsDirectory(Data(bpm, ht.locals.dir_page))
       IN IF ht.locals.bucket_idx < DirSize(dir)
          THEN LET b == SplitInsertLoop(dir, ht.locals.bucket_idx,
                                        ht.locals.split_bucket_page_id)
               IN /\ bpm' = SetData(bpm, ht.locals.dir_page, b.dir)
                  /\ ht' = [ht EXCEPT !.locals.bucket_idx = b.bucket_idx]
                  /\ UNCHANGED <<M, new_ids, last_unpin, unflagged, lruVars, pbpmVars, pageVars,
                                                                      flushVars, thrVars>>
          ELSE \E r \in {SplitInsertRest(CtxOfLocals(bpm, ht), ht.locals.key,
                                          ht.locals.value)} :
                  InsertComesTo(r, ht.locals.key, ht.locals.value)

HTRemove(key, value) ==
    /\ ht.pc = "idle"
    /\ \E r \in {Remove(Ctx(bpm, ht), key, value)} :
          /\ bpm' = r.bpm
          /\ ht' = [ht EXCEPT !.pc = r.pc]
          /\ M' = IF r.pc = "idle" /\ r.ret THEN [M EXCEPT ![<<key, value>>] = @ - 1] ELSE M
    /\ UNCHANGED <<new_ids, last_unpin, unflagged, lruVars, pbpmVars, pageVars,
                                                                      flushVars, thrVars>>

HTGetValue(key) ==
    /\ ht.pc = "idle"
    /\ \E r \in {GetValue(Ctx(bpm, ht), key)} :
          /\ bpm' = r.bpm
          /\ ht' = [ht EXCEPT !.pc = IF r.asserts THEN "idle" ELSE "aborted"]
    /\ UNCHANGED <<M, new_ids, last_unpin, unflagged, lruVars, pbpmVars, pageVars,
                                                                      flushVars, thrVars>>

HTNext ==
    \/ \E key \in Keys : \E value \in Values : HTInsert(key, value)
    \/ SplitInsertStep
    \/ \E key \in Keys : \E value \in Values : HTRemove(key, value)
    \/ \E key \in Keys : HTGetValue(key)

HTSpec == HTInit /\ [][HTNext]_vars

\* the thread that is inside the loop of SplitInsert keeps running
HTFairSpec == HTInit /\ [][HTNext]_vars /\ WF_vars(SplitInsertStep)

(***************************************************************************)
(* One hash table called by several threads: thread 0 is a writer that     *)
(* calls Insert and Remove, the others are readers that call GetValue.     *)
(* A thread takes one step at a time: a latch operation, a call of the     *)
(* buffer pool (atomic under the pool's mutex) or a call of a page method  *)
(* (which takes the page's latch for its duration).  A position is named   *)
(* by the function and the line the thread is about to execute.            *)
(*                                                                         *)
(* ReaderWriterLatch is not part of the sources.  It is modelled as the    *)
(* number of times each thread holds it in each mode: a shared request     *)
(* waits while another thread holds it exclusively, an exclusive request   *)
(* waits while another thread holds it in any mode, and a request by a     *)
(* thread that already holds the latch is granted.                         *)
(***************************************************************************)
Threads == 0..NumReaders
Writer == CHOOSE t \in Threads : \A u \in Threads : t <= u
Readers == 1..NumReaders

ReaderWriterLatch == [r |-> [t \in Threads |-> 0], w |-> [t \in Threads |-> 0]]

CanRLock(latch, t) == \A u \in Threads \ {t} : latch.w[u] = 0

CanWLock(latch, t) == \A u \in Threads \ {t} : latch.w[u] = 0 /\ latch.r[u] = 0

RLock(latch, t) == [latch EXCEPT !.r[t] = @ + 1]

RUnlock(latch, t) == [latch EXCEPT !.r[t] = @ - 1]

WLock(latch, t) == [latch EXCEPT !.w[t] = @ + 1]

WUnlock(latch, t) == [latch EXCEPT !.w[t] = @ - 1]

\* the page pointers a call holds in its local variables
LocalsOf(c) ==
    [dir_page |-> c.dir_page, bucket_page |-> c.bucket_page,
     split_bucket_page |-> c.split_bucket_page,
     merge_bucket_page |-> c.merge_bucket_page,
     split_bucket_page_id |-> c.split_bucket_page_id]

\* the call of thread record th at work on the buffer pool s
CtxOfThread(s, th) ==
    [Ctx(s, ht) EXCEPT !.dir_page = th.locals.dir_page,
                       !.bucket_page = th.locals.bucket_page,
                       !.split_bucket_page = th.locals.split_bucket_page,
                       !.merge_bucket_page = th.locals.merge_bucket_page,
                       !.split_bucket_page_id = th.locals.split_bucket_page_id]

NoPointers ==
    [dir_page |-> NULLPTR, bucket_page |-> NULLPTR, split_bucket_page |-> NULLPTR,
     merge_bucket_page |-> NULLPTR, split_bucket_page_id |-> INVALID_PAGE_ID]

\* a thread that is in no call: pc is the function it is in, line the line
\* it is about to execute, caller the locals of Remove while Merge runs
NoCall ==
    [pc |-> "idle", line |-> 0, op |-> "none", key |-> 0, value |-> 0,
     ret |-> FALSE, result |-> <<>>, bucket_idx |-> 0, merge_bucket_idx |-> 0,
     locals |-> NoPointers, caller |-> NoPointers]

\* the outcome of a step of a thread: it waits, or it goes on to a line
Wait == [ok |-> FALSE]

When(cond, n) == IF cond THEN n ELSE Wait

Go(th, c, pc, line, l) ==
    [ok |-> TRUE, bpm |-> c.bpm, latches |-> l,
     th |-> [th EXCEPT !.pc = IF c.asserts THEN pc ELSE "aborted",
                       !.line = line, !.locals = LocalsOf(c)]]

\* the call returns; line stays the line of the return statement
Return(th, c, l) ==
    [ok |-> TRUE, bpm |-> c.bpm, latches |-> l,
     th |-> [th EXCEPT !.pc = IF c.asserts THEN "idle" ELSE "aborted",
                       !.locals = NoPointers, !.caller = NoPointers,
                       !.bucket_idx = 0, !.merge_bucket_idx = 0]]


\* table_latch_.RLock(), RUnlock(), WLock() and WUnlock() called by thread t,
\* which then goes on to a line
\*
\* a shared request that does not wait for a thread holding the latch
\* exclusively
TableRLock_NoWait(t, th, c, l, pc, line) ==
    Go(th, c, pc, line, [l EXCEPT !.table_latch_ = RLock(@, t)])

TableRLock(t, th, c, l, pc, line) ==
    When(CanRLock(l.table_latch_, t),
         Go(th, c, pc, line, [l EXCEPT !.table_latch_ = RLock(@, t)]))

TableRUnlock(t, th, c, l, pc, line) ==
    Go(th, c, pc, line, [l EXCEPT !.table_latch_ = RUnlock(@, t)])

TableWLock(t, th, c, l, pc, line) ==
    When(CanWLock(l.table_latch_, t),
         Go(th, c, pc, line, [l EXCEPT !.table_latch_ = WLock(@, t)]))

\* an exclusive hold that is not given up
TableWUnlock_Keeps(t, th, c, l, pc, line) ==
    Go(th, c, pc, line, l)

TableWUnlock(t, th, c, l, pc, line) ==
    Go(th, c, pc, line, [l EXCEPT !.table_latch_ = WUnlock(@, t)])

\* page->RLatch(), RUnlatch(), WLatch() and WUnlatch() of the Page in a frame
RLatch(t, th, c, l, page, pc, line) ==
    When(CanRLock(l.pages_[page], t),
         Go(th, c, pc, line, [l EXCEPT !.pages_[page] = RLock(@, t)]))

RUnlatch(t, th, c, l, page, pc, line) ==
    Go(th, c, pc, line, [l EXCEPT !.pages_[page] = RUnlock(@, t)])

WLatch(t, th, c, l, page, pc, line) ==
    When(CanWLock(l.pages_[page], t),
         Go(th, c, pc, line, [l EXCEPT !.pages_[page] = WLock(@, t)]))

WUnlatch(t, th, c, l, page, pc, line) ==
    Go(th, c, pc, line, [l EXCEPT !.pages_[page] = WUnlock(@, t)])

\* GetValue, one step of thread t: th is the thread, c its call at work on
\* the buffer pool, l the latches
ThreadGetValue(t, th, c, l) ==
    CASE th.line = 101 ->
            TableRLock(t, th, c, l, "GetValue", 103)
      [] th.line = 103 ->
            Go(th, FetchDirectoryPage(c), "GetValue", 104, l)
      [] th.line = 104 ->
            When(CanRLock(l.pages_[c.dir_page], t),
                 Go(th, FetchBucketPage(c, KeyToPageId(th.key, DirPage(c))),
                    "GetValue", 107, l))
      [] th.line = 107 ->
            RLatch(t, th, c, l, c.bucket_page, "GetValue", 108)
      [] th.line = 108 ->
            When(CanRLock(l.pages_[c.bucket_page], t),
                 Go([th EXCEPT !.ret = BucketGetValue(BucketPage(c), th.key).ret,
                               !.result = BucketGetValue(BucketPage(c), th.key).result],
                    c, "GetValue", 109, l))
      [] th.line = 109 ->
            RUnlatch(t, th, c, l, c.bucket_page, "GetValue", 111)
      [] th.line = 111 ->
            Go(th, AssertUnpinPage(c, DirPage(c).page_id_, FALSE), "GetValue", 112, l)
      [] th.line = 112 ->
            When(CanRLock(l.pages_[c.bucket_page], t),
                 Go(th, AssertUnpinPage(c, GetPageId(c.bpm, c.bucket_page), FALSE),
                    "GetValue", 114, l))
      [] th.line = 114 ->
            TableRUnlock(t, th, c, l, "GetValue", 116)
      [] th.line = 116 ->
            Return(th, c, l)

\* Insert, one step of thread t
ThreadInsert(t, th, c, l) ==
    CASE th.line = 126 ->
            TableRLock(t, th, c, l, "Insert", 128)
      [] th.line = 128 ->
            Go(th, FetchDirectoryPage(c), "Insert", 129, l)
      [] th.line = 129 ->
            When(CanRLock(l.pages_[c.dir_page], t),
                 Go(th, FetchBucketPage(c, KeyToPageId(th.key, DirPage(c))),
                    "Insert", 132, l))
      [] th.line = 132 ->
            WLatch(t, th, c, l, c.bucket_page, "Insert", 133)
      [] th.line = 133 ->
            When(CanRLock(l.pages_[c.bucket_page], t),
                 Go(th, c, "Insert", IF ~IsFull(BucketPage(c)) THEN 134 ELSE 142, l))
      [] th.line = 134 ->
            When(CanWLock(l.pages_[c.bucket_page], t),
                 Go([th EXCEPT !.ret = BucketInsert(BucketPage(c), th.key, th.value).ret],
                    SetBucketPage(c, BucketInsert(BucketPage(c), th.key, th.value).bucket),
                    "Insert", 135, l))
      [] th.line = 135 ->
            Go(th, AssertUnpinPage(c, DirPage(c).page_id_, FALSE), "Insert", 136, l)
      [] th.line = 136 ->
            When(CanRLock(l.pages_[c.bucket_page], t),
                 Go(th, AssertUnpinPage(c, GetPageId(c.bpm, c.bucket_page), TRUE),
                    "Insert", 138, l))
      [] th.line = 138 ->
            WUnlatch(t, th, c, l, c.bucket_page, "Insert", 139)
      [] th.line = 139 ->
            TableRUnlock(t, th, c, l, "Insert", 140)
      [] th.line = 140 ->
            Return(th, c, l)
      [] th.line = 142 ->
            WUnlatch(t, th, c, l, c.bucket_page, "Insert", 144)
      [] th.line = 144 ->
            Go(th, AssertUnpinPage(c, DirPage(c).page_id_, FALSE), "Insert", 145, l)
      [] th.line = 145 ->
            When(CanRLock(l.pages_[c.bucket_page], t),
                 Go(th, AssertUnpinPage(c, GetPageId(c.bpm, c.bucket_page), FALSE),
                    "Insert", 146, l))
      [] th.line = 146 ->
            TableRUnlock(t, th, c, l, "Insert", 148)
      [] th.line = 148 ->
            Go(th, [c EXCEPT !.dir_page = NULLPTR, !.bucket_page = NULLPTR],
               "SplitInsert", 153, l)

\* SplitInsert, one step of thread t; a pass of the loop of lines 200-213 is
\* one step, and so is the loop of lines 221-232
ThreadSplitInsert(t, th, c, l) ==
    CASE th.line = 153 ->
            TableWLock(t, th, c, l, "SplitInsert", 155)
      [] th.line = 155 ->
            Go(th, FetchDirectoryPage(c), "SplitInsert", 156, l)
      [] th.line = 156 ->
            When(CanRLock(l.pages_[c.dir_page], t),
                 Go([th EXCEPT !.bucket_idx = KeyToDirectoryIndex(th.key, DirPage(c))],
                    FetchBucketPage(c, KeyToPageId(th.key, DirPage(c))),
                    "SplitInsert", 159, l))
      [] th.line = 159 ->
            When(CanWLock(l.pages_[c.dir_page], t),
                 IF GetLocalHighBit(DirPage(c), th.bucket_idx) > DIRECTORY_ARRAY_SIZE
                 THEN Go(th, c, "SplitInsert", 160, l)
                 ELSE Go(th, SplitInsertGrow(c, th.bucket_idx), "SplitInsert", 183, l))
      [] th.line = 160 ->
            Go(th, AssertUnpinPage(c, DirPage(c).page_id_, FALSE), "SplitInsert", 161, l)
      [] th.line = 161 ->
            When(CanRLock(l.pages_[c.bucket_page], t),
                 Go(th, AssertUnpinPage(c, GetPageId(c.bpm, c.bucket_page), FALSE),
                    "SplitInsert", 162, l))
      [] th.line = 162 ->
            TableWUnlock(t, th, c, l, "SplitInsert", 164)
      [] th.line = 164 ->
            Return([th EXCEPT !.ret = FALSE], c, l)
      [] th.line = 183 ->
            Only({IF n.ret = NULLPTR
                  THEN Go(th, c, "SplitInsert", 184, l)
                  ELSE Go(th, AssertThat([c EXCEPT !.bpm = n.bpm,
                                                   !.split_bucket_page_id = n.page_id],
                                         n.page_id # INVALID_PAGE_ID),
                          "SplitInsert", 194, l) :
                     n \in {NewPgImp(c.bpm)}})
      [] th.line = 184 ->
            Go(th, AssertUnpinPage(c, DirPage(c).page_id_, TRUE), "SplitInsert", 185, l)
      [] th.line = 185 ->
            When(CanRLock(l.pages_[c.bucket_page], t),
                 Go(th, AssertUnpinPage(c, GetPageId(c.bpm, c.bucket_page), FALSE),
                    "SplitInsert", 186, l))
      [] th.line = 186 ->
            TableWUnlock(t, th, c, l, "SplitInsert", 189)
      [] th.line = 189 ->
            Return([th EXCEPT !.ret = FALSE],
                   AssertThat(c, VerifyIntegrity(DirPage(c))), l)
      [] th.line = 194 ->
            Go(th, AssertUnpinPage(c, c.split_bucket_page_id, FALSE),
               "SplitInsert", 196, l)
      [] th.line = 196 ->
            Go(th, FetchSplitBucketPage(c), "SplitInsert", 199, l)
      [] th.line = 199 ->
            When(CanRLock(l.pages_[c.bucket_page], t),
                 Go([th EXCEPT !.bucket_idx =
                        FindFirstBucket(DirPage(c), GetPageId(c.bpm, c.bucket_page))],
                    c, "SplitInsert", 200, l))
      [] th.line = 200 ->
            IF th.bucket_idx < DirSize(DirPage(c))
            THEN Only({Go([th EXCEPT !.bucket_idx = b.bucket_idx],
                          SetDirPage(c, b.dir), "SplitInsert", 200, l) :
                          b \in {SplitInsertLoop(DirPage(c), th.bucket_idx,
                                                 c.split_bucket_page_id)}})
            ELSE Go(th, c, "SplitInsert", 218, l)
      [] th.line = 218 ->
            WLatch(t, th, c, l, c.bucket_page, "SplitInsert", 219)
      [] th.line = 219 ->
            WLatch(t, th, c, l, c.split_bucket_page, "SplitInsert", 221)
      [] th.line = 221 ->
            Only({Go(th, SetSplitBucketPage(SetBucketPage(c, r.bucket), r.split_bucket),
                     "SplitInsert", 233, l) :
                     r \in {Rehash(DirPage(c), BucketPage(c), SplitBucketPage(c),
                                   GetPageId(c.bpm, c.bucket_page), 0)}})
      [] th.line = 233 ->
            WUnlatch(t, th, c, l, c.bucket_page, "SplitInsert", 234)
      [] th.line = 234 ->
            WUnlatch(t, th, c, l, c.split_bucket_page, "SplitInsert", 236)
      [] th.line = 236 ->
            Go(th, AssertUnpinPage(c, DirPage(c).page_id_, TRUE), "SplitInsert", 237, l)
      [] th.line = 237 ->
            When(CanRLock(l.pages_[c.bucket_page], t),
                 Go(th, AssertUnpinPage(c, GetPageId(c.bpm, c.bucket_page), TRUE),
                    "SplitInsert", 238, l))
      [] th.line = 238 ->
            When(CanRLock(l.pages_[c.split_bucket_page], t),
                 Go(th, AssertUnpinPage(c, GetPageId(c.bpm, c.split_bucket_page), TRUE),
                    "SplitInsert", 240, l))
      [] th.line = 240 ->
            TableWUnlock(t, th, c, l, "SplitInsert", 244)
      [] th.line = 244 ->
            Go(th, [c EXCEPT !.dir_page = NULLPTR, !.bucket_page = NULLPTR,
                             !.split_bucket_page = NULLPTR,
                             !.split_bucket_page_id = INVALID_PAGE_ID],
               "Insert", 126, l)

\* Remove, one step of thread t
ThreadRemove(t, th, c, l) ==
    CASE th.line = 254 ->
            TableRLock(t, th, c, l, "Remove", 256)
      [] th.line = 256 ->
            Go(th, FetchDirectoryPage(c), "Remove", 257, l)
      [] th.line = 257 ->
            When(CanRLock(l.pages_[c.dir_page], t),
                 Go(th, FetchBucketPage(c, KeyToPageId(th.key, DirPage(c))),
                    "Remove", 260, l))
      [] th.line = 260 ->
            WLatch(t, th, c, l, c.bucket_page, "Remove", 261)
      [] th.line = 261 ->
            When(CanWLock(l.pages_[c.bucket_page], t),
                 Go([th EXCEPT !.ret = BucketRemove(BucketPage(c), th.key, th.value, 0).ret],
                    SetBucketPage(c, BucketRemove(BucketPage(c), th.key, th.value, 0).bucket),
                    "Remove", 262, l))
      [] th.line = 262 ->
            WUnlatch(t, th, c, l, c.bucket_page, "Remove", 264)
      [] th.line = 264 ->
            When(CanRLock(l.pages_[c.dir_page], t),
                 Go([th EXCEPT
                       !.bucket_idx = KeyToDirectoryIndex(th.key, DirPage(c)),
                       !.merge_bucket_idx =
                          MergeBucketIdx(DirPage(c), KeyToDirectoryIndex(th.key, DirPage(c)))],
                    c, "Remove", 267, l))
      [] th.line = 267 ->
            RLatch(t, th, c, l, c.bucket_page, "Remove", 268)
      [] th.line = 268 ->
            When(CanRLock(l.pages_[c.bucket_page], t) /\ CanRLock(l.pages_[c.dir_page], t),
                 Go(th, c, "Remove",
                    IF /\ IsEmpty(BucketPage(c))
                       /\ GetLocalDepth(DirPage(c), th.bucket_idx) > 0
                       /\ GetLocalDepth(DirPage(c), th.bucket_idx)
                             = GetLocalDepth(DirPage(c), th.merge_bucket_idx)
                    THEN 270 ELSE 277, l))
      [] th.line = 270 ->
            RUnlatch(t, th, c, l, c.bucket_page, "Remove", 271)
      [] th.line = 271 ->
            TableRUnlock(t, th, c, l, "Remove", 272)
      [] th.line = 272 ->
            Go([th EXCEPT !.caller = LocalsOf(c)],
               [c EXCEPT !.dir_page = NULLPTR, !.bucket_page = NULLPTR], "Merge", 292, l)
      [] th.line = 274 ->
            TableRLock(t, th, c, l, "Remove", 275)
      [] th.line = 275 ->
            RLatch(t, th, c, l, c.bucket_page, "Remove", 277)
      [] th.line = 277 ->
            RUnlatch(t, th, c, l, c.bucket_page, "Remove", 279)
      [] th.line = 279 ->
            Go(th, AssertUnpinPage(c, DirPage(c).page_id_, TRUE), "Remove", 280, l)
      [] th.line = 280 ->
            When(CanRLock(l.pages_[c.bucket_page], t),
                 Go(th, AssertUnpinPage(c, GetPageId(c.bpm, c.bucket_page), th.ret),
                    "Remove", 282, l))
      [] th.line = 282 ->
            TableRUnlock(t, th, c, l, "Remove", 284)
      [] th.line = 284 ->
            Return(th, c, l)

\* Merge, one step of thread t; the loop of lines 321-339 is one step, and
\* the call of line 369 starts Merge again
ThreadMerge(t, th, c, l) ==
    CASE th.line = 292 ->
            TableWLock(t, th, c, l, "Merge", 294)
      [] th.line = 294 ->
            Go(th, FetchDirectoryPage(c), "Merge", 295, l)
      [] th.line = 295 ->
            When(CanRLock(l.pages_[c.dir_page], t),
                 Go([th EXCEPT
                       !.bucket_idx = KeyToDirectoryIndex(th.key, DirPage(c)),
                       !.merge_bucket_idx =
                          MergeBucketIdx(DirPage(c), KeyToDirectoryIndex(th.key, DirPage(c)))],
                    c, "Merge", 298, l))
      [] th.line = 298 ->
            Go(th, FetchBucketPage(c, GetBucketPageId(DirPage(c), th.bucket_idx)),
               "Merge", 299, l)
      [] th.line = 299 ->
            Only({Go(th, [c EXCEPT !.bpm = r.bpm, !.merge_bucket_page = r.ret],
                     "Merge", 304, l) :
                     r \in {FetchPgImp(c.bpm, GetBucketPageId(DirPage(c),
                                                              th.merge_bucket_idx))}})
      [] th.line = 304 ->
            RLatch(t, th, c, l, c.bucket_page, "Merge", 305)
      [] th.line = 305 ->
            RLatch(t, th, c, l, c.merge_bucket_page, "Merge", 307)
      [] th.line = 307 ->
            Go(th, c, "Merge",
               IF \/ (~IsEmpty(BucketPage(c)) /\ ~IsEmpty(MergeBucketPage(c)))
                  \/ GetLocalDepth(DirPage(c), th.bucket_idx) <= 0
                  \/ GetLocalDepth(DirPage(c), th.bucket_idx)
                        # GetLocalDepth(DirPage(c), th.merge_bucket_idx)
               THEN 309 ELSE 320, l)
      [] th.line = 309 ->
            RUnlatch(t, th, c, l, c.bucket_page, "Merge", 310)
      [] th.line = 310 ->
            RUnlatch(t, th, c, l, c.merge_bucket_page, "Merge", 312)
      [] th.line = 312 ->
            When(CanRLock(l.pages_[c.bucket_page], t),
                 Go(th, AssertUnpinPage(c, GetPageId(c.bpm, c.bucket_page), FALSE),
                    "Merge", 313, l))
      [] th.line = 313 ->
            When(CanRLock(l.pages_[c.merge_bucket_page], t),
                 Go(th, AssertUnpinPage(c, GetPageId(c.bpm, c.merge_bucket_page), FALSE),
                    "Merge", 315, l))
      [] th.line = 315 ->
            TableWUnlock(t, th, c, l, "Merge", 317)
      [] th.line = 317 ->
            Go(th, [c EXCEPT !.dir_page = th.caller.dir_page,
                             !.bucket_page = th.caller.bucket_page,
                             !.merge_bucket_page = NULLPTR],
               "Remove", 274, l)
      [] th.line = 320 ->
            Only({Go(th, SetDirPage(AssertThat(c, m.asserts), m.dir), "Merge", 340, l) :
                     m \in {MergeLoop(DirPage(c),
                                      FindFirstBucket(DirPage(c),
                                         GetBucketPageId(DirPage(c), th.bucket_idx)),
                                      IsEmpty(BucketPage(c)),
                                      IsEmpty(MergeBucketPage(c)))}})
      [] th.line = 340 ->
            RUnlatch(t, th, c, l, c.bucket_page, "Merge", 341)
      [] th.line = 341 ->
            RUnlatch(t, th, c, l, c.merge_bucket_page, "Merge", 343)
      [] th.line = 343 ->
            When(CanRLock(l.pages_[c.bucket_page], t),
                 Go(th, AssertUnpinPage(c, GetPageId(c.bpm, c.bucket_page), FALSE),
                    "Merge", 344, l))
      [] th.line = 344 ->
            When(CanRLock(l.pages_[c.merge_bucket_page], t),
                 Go(th, AssertUnpinPage(c, GetPageId(c.bpm, c.merge_bucket_page), FALSE),
                    "Merge", 346, l))
      [] th.line = 346 ->
            IF CanShrink(DirPage(c)) /\ GetGlobalDepth(DirPage(c)) > 1
            THEN Only({Go(th, SetDirPage(AssertThat(c, sh.asserts), sh.dir),
                          "Merge", 366, l) :
                          sh \in {ShrinkDirectory(DirPage(c))}})
            ELSE Go(th, c, "Merge", 366, l)
      [] th.line = 366 ->
            Go(th, AssertUnpinPage(c, DirPage(c).page_id_, TRUE), "Merge", 367, l)
      [] th.line = 367 ->
            TableWUnlock(t, th, c, l, "Merge", 369)
      [] th.line = 369 ->
            Go(th, [c EXCEPT !.dir_page = NULLPTR, !.bucket_page = NULLPTR,
                             !.merge_bucket_page = NULLPTR],
               "Merge", 292, l)

\* the step thread t takes next
StepOf(t) ==
    LET th == threads[t]
        c == CtxOfThread(bpm, th)
    IN CASE th.pc = "GetValue" -> ThreadGetValue(t, th, c, latches)
         [] th.pc = "Insert" -> ThreadInsert(t, th, c, latches)
         [] th.pc = "SplitInsert" -> ThreadSplitInsert(t, th, c, latches)
         [] th.pc = "Remove" -> ThreadRemove(t, th, c, latches)
         [] th.pc = "Merge" -> ThreadMerge(t, th, c, latches)
         [] OTHER -> Wait

\* the keys the readers look up, with the values stored under each before
\* the threads start, and the keys the writer inserts and removes
StaticKeys == 0..MaxStaticKey
StaticPairs == {<<key, key>> : key \in StaticKeys}
WriterKeys == (MaxStaticKey + 1)..MaxWriterKey

\* the static pairs are inserted one after the other, the least first
RECURSIVE InsertAll(_, _, _)
InsertAll(s, t, pairs) ==
    IF pairs = {} THEN [bpm |-> s, pc |-> "idle", ret |-> TRUE]
    ELSE LET p == CHOOSE p \in pairs :
                     \A q \in pairs : p[1] < q[1] \/ (p[1] = q[1] /\ p[2] <= q[2])
         IN Only({IF r.pc = "idle" /\ r.ret
                  THEN InsertAll(r.bpm, t, pairs \ {p}) ELSE r :
                     r \in {Insert(Ctx(s, t), p[1], p[2])}})

ThrInit ==
    /\ \E pool_size \in 2..HTPoolSize :
          \E c \in {ExtendibleHashTable(BufferPoolManagerInstance(pool_size, 1, 0))} :
             \E r \in {InsertAll(c.bpm, c, StaticPairs)} :
                /\ c.asserts /\ r.pc = "idle" /\ r.ret
                /\ bpm = r.bpm
                /\ ht = [pc |-> "threads", directory_page_id_ |-> c.directory_page_id_,
                         locals |-> NoLocals]
                /\ latches = [table_latch_ |-> ReaderWriterLatch,
                              pages_ |-> [f \in DOMAIN r.bpm.pages_ |-> ReaderWriterLatch]]
    /\ threads = [t \in Threads |-> NoCall]
    /\ M = <<>>
    /\ new_ids = <<>>
    /\ last_unpin = <<>>
    /\ unflagged = {}
    /\ lru = NoReplacer
    /\ pbpm = NoPool
    /\ bpage = NoBucket
    /\ flush = NoFlush

Running == \A t \in Threads : threads[t].pc # "aborted"

\* a reader calls GetValue with a static key and an empty result vector
CallGetValue(t, key) ==
    /\ Running /\ threads[t].pc = "idle"
    /\ threads' = [threads EXCEPT ![t] = [NoCall EXCEPT !.pc = "GetValue", !.line = 101,
                                                      !.op = "GetValue", !.key = key]]
    /\ UNCHANGED <<bpmVars, htVars, lruVars, pbpmVars, pageVars, flushVars, latches>>

CallInsert(key, value) ==
    /\ Running /\ threads[Writer].pc = "idle"
    /\ threads' = [threads EXCEPT ![Writer] =
                      [NoCall EXCEPT !.pc = "Insert", !.line = 126, !.op = "Insert",
                                     !.key = key, !.value = value]]
    /\ UNCHANGED <<bpmVars, htVars, lruVars, pbpmVars, pageVars, flushVars, latches>>

CallRemove(key, value) ==
    /\ Running /\ threads[Writer].pc = "idle"
    /\ threads' = [threads EXCEPT ![Writer] =
                      [NoCall EXCEPT !.pc = "Remove", !.line = 254, !.op = "Remove",
                                     !.key = key, !.value = value]]
    /\ UNCHANGED <<bpmVars, htVars, lruVars, pbpmVars, pageVars, flushVars, latches>>

\* thread t takes its next step, unless it has to wait for a latch
Run(t) ==
    /\ Running
    /\ \E n \in {StepOf(t)} :
          /\ n.ok
          /\ bpm' = n.bpm
          /\ threads' = [threads EXCEPT ![t] = n.th]
          /\ latches' = n.latches
    /\ UNCHANGED <<new_ids, last_unpin, unflagged, htVars, lruVars, pbpmVars, pageVars,
                   flushVars>>

ThrNext ==
    \/ \E t \in Readers : \E key \in StaticKeys : CallGetValue(t, key)
    \/ \E key \in WriterKeys : \E value \in Values : CallInsert(key, value)
    \/ \E key \in WriterKeys : \E value \in Values : CallRemove(key, value)
    \/ \E t \in Threads : Run(t)

ThrSpec == ThrInit /\ [][ThrNext]_vars

(***************************************************************************)
(* The LRU replacer on its own: a client calls Victim, Pin and Unpin with  *)
(* frame ids below the number of pages the replacer was built for.  order  *)
(* lists the frames that an Unpin has inserted and that no Pin has removed *)
(* and no Victim has handed out since, the earliest Unpin first.           *)
(***************************************************************************)
NoInstance == [pc |-> "none"]

SeqWithout(seq, x) == SelectSeq(seq, LAMBDA y : y # x)

LRUInit ==
    /\ lru = [replacer |-> LRUReplacer(LRUPages), out |-> NULLPTR, order |-> <<>>]
    /\ bpm = NoInstance
    /\ new_ids = <<>>
    /\ last_unpin = <<>>
    /\ unflagged = {}
    /\ ht = NoTable
    /\ M = <<>>
    /\ pbpm = NoPool
    /\ bpage = NoBucket
    /\ flush = NoFlush
    /\ threads = NoThreads
    /\ latches = NoThreads

LRUVictim ==
    /\ LET v == Victim(lru.replacer)
       IN lru' = [replacer |-> v.replacer,
                  out |-> IF v.frame_id = NULLPTR THEN lru.out ELSE v.frame_id,
                  order |-> IF v.ok THEN SeqWithout(lru.order, v.frame_id)
                                    ELSE lru.order]
    /\ UNCHANGED <<bpmVars, htVars, pbpmVars, pageVars,
                                                                      flushVars, thrVars>>

LRUPin(frame_id) ==
    /\ lru' = [lru EXCEPT !.replacer = Pin(@, frame_id),
                          !.order = SeqWithout(@, frame_id)]
    /\ UNCHANGED <<bpmVars, htVars, pbpmVars, pageVars,
                                                                      flushVars, thrVars>>

LRUUnpin(frame_id) ==
    /\ lru' = [lru EXCEPT !.replacer = Unpin(@, frame_id),
                          !.order = IF \E i \in DOMAIN @ : @[i] = frame_id
                                    THEN @ ELSE Append(@, frame_id)]
    /\ UNCHANGED <<bpmVars, htVars, pbpmVars, pageVars,
                                                                      flushVars, thrVars>>

LRUNext ==
    \/ LRUVictim
    \/ \E frame_id \in 0..(LRUPages - 1) : LRUPin(frame_id)
    \/ \E frame_id \in 0..(LRUPages - 1) : LRUUnpin(frame_id)

LRUSpec == LRUInit /\ [][LRUNext]_vars

(***************************************************************************)
(* The parallel buffer pool on its own: a client calls its operations one  *)
(* at a time, FetchPage, UnpinPage, FlushPage and DeletePage with ids that *)
(* NewPage has returned.  A failed assert ends the program.  news lists    *)
(* what the NewPage calls wrote to *page_id (INVALID_PAGE_ID where NewPage  *)
(* returned nullptr); only_news tells that no other call was made so far.  *)
(***************************************************************************)
ParInit ==
    /\ pbpm = [obj |-> ParallelBufferPoolManager(ParNumInstances, ParPoolSize),
               pc |-> "idle", news |-> <<>>, only_news |-> TRUE]
    /\ bpm = NoInstance
    /\ new_ids = <<>>
    /\ last_unpin = <<>>
    /\ unflagged = {}
    /\ ht = NoTable
    /\ M = <<>>
    /\ lru = NoReplacer
    /\ bpage = NoBucket
    /\ flush = NoFlush
    /\ threads = NoThreads
    /\ latches = NoThreads

ParIds == {pbpm.news[k] : k \in DOMAIN pbpm.news} \ {INVALID_PAGE_ID}

\* the call has come to r
ParComesTo(r) ==
    /\ pbpm' = [pbpm EXCEPT !.obj = r.pbpm,
                            !.pc = IF r.asserts THEN "idle" ELSE "aborted",
                            !.only_news = FALSE]
    /\ UNCHANGED <<bpmVars, htVars, lruVars, pageVars, flushVars, thrVars>>

ParNewPage ==
    /\ pbpm.pc = "idle"
    /\ Len(pbpm.news) < ParMaxNews
    /\ \E r \in {ParallelNewPgImp(pbpm.obj)} :
          pbpm' = [pbpm EXCEPT !.obj = r.pbpm, !.news = Append(@, r.page_id)]
    /\ UNCHANGED <<bpmVars, htVars, lruVars, pageVars, flushVars, thrVars>>

ParFetchPage(page_id) ==
    /\ pbpm.pc = "idle"
    /\ \A b \in {pbpm.obj.bpms_[page_id % ParNumInstances]} :
          page_id \in DOMAIN b.page_table_ =>
             b.pages_[b.page_table_[page_id]].pin_count_ < MaxPins
    /\ \E r \in {ParallelFetchPgImp(pbpm.obj, page_id)} : ParComesTo(r)

ParUnpinPage(page_id, is_dirty) ==
    /\ pbpm.pc = "idle"
    /\ \E r \in {ParallelUnpinPgImp(pbpm.obj, page_id, is_dirty)} : ParComesTo(r)

ParFlushPage(page_id) ==
    /\ pbpm.pc = "idle"
    /\ \E r \in {ParallelFlushPgImp(pbpm.obj, page_id)} : ParComesTo(r)

ParDeletePage(page_id) ==
    /\ pbpm.pc = "idle"
    /\ \E r \in {ParallelDeletePgImp(pbpm.obj, page_id)} : ParComesTo(r)

ParFlushAllPages ==
    /\ pbpm.pc = "idle"
    /\ pbpm' = [pbpm EXCEPT !.obj = ParallelFlushAllPgsImp(@), !.only_news = FALSE]
    /\ UNCHANGED <<bpmVars, htVars, lruVars, pageVars, flushVars, thrVars>>

ParNext ==
    \/ ParNewPage
    \/ \E page_id \in ParIds : ParFetchPage(page_id)
    \/ \E page_id \in ParIds : \E is_dirty \in BOOLEAN : ParUnpinPage(page_id, is_dirty)
    \/ \E page_id \in ParIds : ParFlushPage(page_id)
    \/ \E page_id \in ParIds : ParDeletePage(page_id)
    \/ ParFlushAllPages

ParSpec == ParInit /\ [][ParNext]_vars

(***************************************************************************)
(* What the claims speak about.                                            *)
(***************************************************************************)
Range(f) == {f[x] : x \in DOMAIN f}

\* the frames successive Victim calls would hand out, least recently used first
RECURSIVE VictimOrder(_)
VictimOrder(r) ==
    IF Victim(r).ok
    THEN <<Victim(r).frame_id>> \o VictimOrder(Victim(r).replacer)
    ELSE <<>>

Frames == DOMAIN bpm.pages_
Resident == DOMAIN bpm.page_table_
FreeFrames == Range(bpm.free_list_)
ReplacerFrames == Range(VictimOrder(bpm.replacer_))

IsFree(f) == f \in FreeFrames
IsPinned(f) == bpm.pages_[f].pin_count_ > 0 /\ f \notin ReplacerFrames
IsReplaceable(f) ==
    /\ bpm.pages_[f].pin_count_ = 0
    /\ bpm.pages_[f].page_id_ # INVALID_PAGE_ID
    /\ f \in ReplacerFrames

\* a pop from the front followed by appends only ever yields an ascending
\* free list: a descent shows that DeletePage has returned a frame
FreeListDescends ==
    \E i, j \in DOMAIN bpm.free_list_ : i < j /\ bpm.free_list_[i] > bpm.free_list_[j]

\* the directory page as the next operation of the table will read it
Directory ==
    AsDirectory(IF ht.directory_page_id_ \in Resident
                THEN Data(bpm, bpm.page_table_[ht.directory_page_id_])
                ELSE ReadPage(bpm.disk_manager_, ht.directory_page_id_))

\* the bucket page the directory entry of a key refers to
BucketOf(key) ==
    LET page_id == KeyToPageId(key, Directory)
    IN AsBucket(IF page_id \in Resident
                THEN Data(bpm, bpm.page_table_[page_id])
                ELSE ReadPage(bpm.disk_manager_, page_id))

Count(seq, v) == Cardinality({i \in DOMAIN seq : seq[i] = v})

C3_FramePartition ==
    /\ \A f \in Frames :
          /\ IsFree(f) \/ IsPinned(f) \/ IsReplaceable(f)
          /\ ~(IsFree(f) /\ IsPinned(f))
          /\ ~(IsFree(f) /\ IsReplaceable(f))
          /\ ~(IsPinned(f) /\ IsReplaceable(f))
    /\ Cardinality(FreeFrames) = Len(bpm.free_list_)
    /\ Cardinality(Frames) = bpm.pool_size_

\* C3 witness: after an eviction or a delete, one frame is pinned while
\* another is replaceable, and another state has had a frame freed again.
C3_Witness ==
    /\ Len(new_ids) = MaxPages
    /\ \E f, g \in Frames : IsPinned(f) /\ IsReplaceable(g)

\* C4: the page table maps p to f iff frame f holds p, no two frames hold the
\* same page, and the frames in its range are exactly the non-free frames.
C4_PageTable ==
    /\ \A p \in Resident : bpm.page_table_[p] \in Frames
                           /\ bpm.pages_[bpm.page_table_[p]].page_id_ = p
    /\ \A f \in Frames : bpm.pages_[f].page_id_ # INVALID_PAGE_ID =>
          /\ bpm.pages_[f].page_id_ \in Resident
          /\ bpm.page_table_[bpm.pages_[f].page_id_] = f
    /\ \A f, g \in Frames :
          (f # g /\ bpm.pages_[f].page_id_ # INVALID_PAGE_ID) =>
             bpm.pages_[f].page_id_ # bpm.pages_[g].page_id_
    /\ Range(bpm.page_table_) = Frames \ FreeFrames

\* C4 witness: both frames hold pages after a page was evicted or deleted
\* and a page was fetched back into a frame that held another page.
C4_Witness ==
    /\ Cardinality(Resident) = PoolSize
    /\ Len(new_ids) = MaxPages
    /\ new_ids[1] \in Resident
    /\ new_ids[MaxPages] \in Resident

\* C5: no pin count is ever negative; UnpinPage of a resident page with pin
\* count 0 returns false and leaves the count; a successful UnpinPage lowers
\* the count of that page by exactly one and of no other frame, and the
\* frame enters the replacer exactly when its count has dropped to 0.
C5_UnpinPinCount ==
    /\ \A f \in Frames : bpm.pages_[f].pin_count_ >= 0
    /\ \A page_id \in OwnIds : \A is_dirty \in BOOLEAN :
          LET r == UnpinPgImp(bpm, page_id, is_dirty)
              f == bpm.page_table_[page_id]
              before == ReplacerFrames
              after == Range(VictimOrder(r.bpm.replacer_))
          IN /\ page_id \notin Resident => ~r.ret
             /\ page_id \in Resident =>
                   /\ r.ret = (bpm.pages_[f].pin_count_ > 0)
                   /\ ~r.ret => r.bpm.pages_[f].pin_count_ = bpm.pages_[f].pin_count_
                   /\ r.ret => r.bpm.pages_[f].pin_count_ = bpm.pages_[f].pin_count_ - 1
                   /\ r.ret => after = IF r.bpm.pages_[f].pin_count_ = 0
                                       THEN before \cup {f} ELSE before
                   /\ r.ret /\ r.bpm.pages_[f].pin_count_ = 0 => f \notin before
                   /\ \A g \in Frames \ {f} :
                         r.bpm.pages_[g].pin_count_ = bpm.pages_[g].pin_count_

\* C5 witness: one resident page is unpinned down to 0 (a further UnpinPage
\* must fail) while another page is pinned twice.
C5_Witness ==
    \E p, q \in Resident :
       /\ bpm.pages_[bpm.page_table_[p]].pin_count_ = 0
       /\ bpm.page_table_[p] \in ReplacerFrames
       /\ bpm.pages_[bpm.page_table_[q]].pin_count_ > 1

\* what NewPage and FetchPage of a non-resident page do to find a frame
TakesFrame(r) ==
    /\ bpm.free_list_ # <<>> =>
          /\ r.ret \in FreeFrames
          /\ Range(r.bpm.free_list_) = FreeFrames \ {r.ret}
          /\ Range(VictimOrder(r.bpm.replacer_)) = ReplacerFrames
    /\ bpm.free_list_ = <<>> /\ ReplacerFrames # {} =>
          /\ r.ret = VictimOrder(bpm.replacer_)[1]
          /\ Range(VictimOrder(r.bpm.replacer_)) = ReplacerFrames \ {r.ret}
          /\ r.bpm.free_list_ = <<>>
    /\ (r.ret = NULLPTR) = (bpm.free_list_ = <<>> /\ ReplacerFrames = {})
    /\ r.ret = NULLPTR => r.bpm = bpm
    /\ r.ret # NULLPTR => bpm.pages_[r.ret].pin_count_ = 0
    /\ \A f \in Frames : bpm.pages_[f].pin_count_ > 0 =>
          /\ r.bpm.pages_[f] = bpm.pages_[f]
          /\ r.bpm.page_table_[bpm.pages_[f].page_id_] = f

\* C6: NewPage and FetchPage of a non-resident page take a frame of the free
\* list if there is one, otherwise the replacer's victim, never a pinned
\* frame; they return nullptr exactly when the free list is empty and no
\* frame is replaceable, and then change nothing.
C6_FrameSelection ==
    /\ TakesFrame(NewPgImp(bpm))
    /\ \A page_id \in OwnIds \ Resident : TakesFrame(FetchPgImp(bpm, page_id))

\* C6 witness: every frame is pinned and the free list is empty after a frame
\* was reused, so the next NewPage and FetchPage return nullptr.
C6_Witness ==
    /\ bpm.free_list_ = <<>>
    /\ \A f \in Frames : bpm.pages_[f].pin_count_ > 0
    /\ Len(new_ids) = MaxPages
    /\ NewPgImp(bpm).ret = NULLPTR

\* what reusing a frame does to the page the frame held
WritesBackIffDirty(r) ==
    r.ret # NULLPTR /\ bpm.pages_[r.ret].page_id_ # INVALID_PAGE_ID =>
       LET old == bpm.pages_[r.ret]
       IN /\ old.is_dirty_ = (old.page_id_ \in Range(r.writes))
          /\ old.is_dirty_ => r.bpm.disk_manager_[old.page_id_] = old.data_
          /\ ~old.is_dirty_ => r.bpm.disk_manager_ = bpm.disk_manager_

\* C7: NewPage and FetchPage write the page of the frame they reuse to disk,
\* with the bytes it had, iff that page is dirty; and FetchPage of an evicted
\* page whose modifications were all followed by UnpinPage(p, true) yields
\* the bytes the page had at its last unpin.
C7_WriteBack ==
    /\ WritesBackIffDirty(NewPgImp(bpm))
    /\ \A page_id \in OwnIds \ Resident : WritesBackIffDirty(FetchPgImp(bpm, page_id))
    /\ \A page_id \in (DOMAIN last_unpin) \ (Resident \cup unflagged) :
          LET r == FetchPgImp(bpm, page_id)
          IN r.ret # NULLPTR => r.bpm.pages_[r.ret].data_ = last_unpin[page_id]

\* C7 witness: a page modified and unpinned dirty has been evicted; its bytes
\* are on disk and a frame is there to fetch it back into.
C7_Witness ==
    \E page_id \in (DOMAIN last_unpin) \ (Resident \cup unflagged) :
       /\ last_unpin[page_id] # ZeroPage
       /\ bpm.free_list_ = <<>>
       /\ ~FreeListDescends
       /\ ReplacerFrames # {}
       /\ bpm.pages_[VictimOrder(bpm.replacer_)[1]].is_dirty_

\* C8: FlushPage of a non-resident id returns false and writes nothing;
\* of a resident id it writes the frame's bytes under that id, dirty or not,
\* clears dirty, changes nothing else of the instance and returns true.
C8_FlushPage ==
    \A page_id \in OwnIds :
       LET r == FlushPgImp(bpm, page_id)
           f == bpm.page_table_[page_id]
       IN /\ page_id \notin Resident => ~r.ret /\ r.writes = <<>> /\ r.bpm = bpm
          /\ page_id \in Resident =>
                /\ r.ret
                /\ r.writes = <<page_id>>
                /\ r.bpm.disk_manager_[page_id] = bpm.pages_[f].data_
                /\ \A q \in (DOMAIN bpm.disk_manager_) \ {page_id} :
                      r.bpm.disk_manager_[q] = bpm.disk_manager_[q]
                /\ r.bpm.pages_ = [bpm.pages_ EXCEPT ![f].is_dirty_ = FALSE]
                /\ r.bpm.page_table_ = bpm.page_table_
                /\ r.bpm.replacer_ = bpm.replacer_
                /\ r.bpm.free_list_ = bpm.free_list_
                /\ r.bpm.next_page_id_ = bpm.next_page_id_

\* C8 witness: a pinned page was modified, never unpinned dirty, and is
\* clean with its bytes on disk: a flush wrote them; a clean resident page
\* whose bytes differ from the disk's is there to be flushed as well.
C8_Witness ==
    /\ \E p \in Resident \cap unflagged :
          /\ ~bpm.pages_[bpm.page_table_[p]].is_dirty_
          /\ bpm.pages_[bpm.page_table_[p]].data_ # ZeroPage
          /\ ReadPage(bpm.disk_manager_, p) = bpm.pages_[bpm.page_table_[p]].data_
    /\ \E q \in Resident :
          /\ ~bpm.pages_[bpm.page_table_[q]].is_dirty_
          /\ ReadPage(bpm.disk_manager_, q) # bpm.pages_[bpm.page_table_[q]].data_

\* C9: DeletePage of a non-resident id returns true and changes nothing; of
\* a pinned page it returns false and changes nothing; otherwise it writes
\* the page back if dirty, erases it from the page table, resets the frame,
\* takes the frame out of the replacer, appends it to the free list and
\* returns true.
C9_DeletePage ==
    \A page_id \in OwnIds :
       LET r == DeletePgImp(bpm, page_id)
           f == bpm.page_table_[page_id]
       IN /\ page_id \notin Resident => r.ret /\ r.bpm = bpm /\ r.writes = <<>>
          /\ page_id \in Resident /\ bpm.pages_[f].pin_count_ > 0 =>
                ~r.ret /\ r.bpm = bpm /\ r.writes = <<>>
          /\ page_id \in Resident /\ bpm.pages_[f].pin_count_ = 0 =>
                /\ r.ret
                /\ bpm.pages_[f].is_dirty_ =>
                      /\ r.writes = <<page_id>>
                      /\ r.bpm.disk_manager_[page_id] = bpm.pages_[f].data_
                /\ ~bpm.pages_[f].is_dirty_ =>
                      r.writes = <<>> /\ r.bpm.disk_manager_ = bpm.disk_manager_
                /\ DOMAIN r.bpm.page_table_ = Resident \ {page_id}
                /\ \A q \in Resident \ {page_id} :
                      r.bpm.page_table_[q] = bpm.page_table_[q]
                /\ r.bpm.pages_[f].page_id_ = INVALID_PAGE_ID
                /\ r.bpm.pages_[f].pin_count_ = 0
                /\ ~r.bpm.pages_[f].is_dirty_
                /\ \A g \in Frames \ {f} : r.bpm.pages_[g] = bpm.pages_[g]
                /\ f \in ReplacerFrames
                /\ Range(VictimOrder(r.bpm.replacer_)) = ReplacerFrames \ {f}
                /\ r.bpm.free_list_ = Append(bpm.free_list_, f)
                /\ r.bpm.next_page_id_ = bpm.next_page_id_

\* C9 witness: the three cases of DeletePage are at hand in one state: an
\* allocated page that is not resident, a resident page that is pinned, and
\* a resident page that is unpinned and dirty.
C9_Witness ==
    /\ Len(new_ids) = MaxPages
    /\ new_ids[1] \notin Resident
    /\ \E p, q \in Resident :
          /\ bpm.pages_[bpm.page_table_[p]].pin_count_ > 0
          /\ bpm.pages_[bpm.page_table_[q]].pin_count_ = 0
          /\ bpm.pages_[bpm.page_table_[q]].is_dirty_

\* C10: every id NewPage has returned is congruent to the instance index
\* modulo the number of instances, and each exceeds the one before it by the
\* number of instances, so none is returned twice.
C10_PageIds ==
    /\ \A k \in DOMAIN new_ids : new_ids[k] % bpm.num_instances_ = bpm.instance_index_
    /\ \A k \in DOMAIN new_ids :
          k > 1 => new_ids[k] = new_ids[k - 1] + bpm.num_instances_
    /\ \A j, k \in DOMAIN new_ids : j # k => new_ids[j] # new_ids[k]
    /\ LET r == NewPgImp(bpm)
       IN r.ret # NULLPTR =>
             /\ r.page_id % bpm.num_instances_ = bpm.instance_index_
             /\ \A k \in DOMAIN new_ids : r.page_id > new_ids[k]

\* C10 witness: an id returned earlier has been deleted and its frame
\* returned to the free list, and the NewPage called next succeeds.
C10_Witness ==
    /\ FreeListDescends
    /\ new_ids # <<>>
    /\ Len(new_ids) < MaxPages
    /\ new_ids[1] \notin Resident
    /\ NewPgImp(bpm).ret # NULLPTR

\* the greatest global depth a directory of DIRECTORY_ARRAY_SIZE entries holds
MAX_GD == CHOOSE n \in 0..DIRECTORY_ARRAY_SIZE :
             2 ^ n <= DIRECTORY_ARRAY_SIZE /\ DIRECTORY_ARRAY_SIZE < 2 ^ (n + 1)

\* the pair is in the bucket the directory entry of its key refers to
Stored(key, value) ==
    \E i \in Slots : /\ IsReadable(BucketOf(key), i)
                     /\ KeyAt(BucketOf(key), i) = key
                     /\ ValueAt(BucketOf(key), i) = value

\* with the directory page and the bucket page of the key pinned, NewPage
\* finds a frame
CanAllocate(key) ==
    \A c \in {FetchPagesOfKey(Ctx(bpm, ht), key)} : NewPgImp(c.bpm).ret # NULLPTR

\* the cases in which Insert is to return false
InsertIsToFail(key, value) ==
    \/ Stored(key, value)
    \/ IsFull(BucketOf(key)) /\ GetGlobalDepth(Directory) = MAX_GD
    \/ IsFull(BucketOf(key)) /\ ~CanAllocate(key)

\* C11: an Insert that returns does so with false exactly in the three cases
\* named, and with true only with the pair stored; and an Insert that has
\* come to split the bucket returns, false if the pair was stored and true
\* with the pair stored otherwise, so that the pair is stored at its return.
C11_InsertResult ==
    /\ [](ht.pc = "idle" =>
            \A key \in Keys : \A value \in Values :
               \A r \in {Insert(Ctx(bpm, ht), key, value)} :
                  /\ r.pc = "idle" => r.ret = ~InsertIsToFail(key, value)
                  /\ r.pc = "idle" /\ r.ret =>
                        \A g \in {GetValue(Ctx(r.bpm, ht), key)} :
                           Count(g.result, value) = 1
                  /\ r.pc = "SplitInsert" =>
                        IsFull(BucketOf(key)) /\ CanAllocate(key))
    /\ \A key \in Keys : \A value \in Values :
          (ht.pc = "SplitInsert" /\ ht.locals.key = key /\ ht.locals.value = value)
             ~> (ht.pc = "idle" /\ M[<<key, value>>] = 1)

C14_InsertReturns == (ht.pc = "SplitInsert") ~> (ht.pc = "idle")

\* C15: the frames the replacer hands out, one Victim after the other, are
\* the frames it holds in the order of the Unpin calls that inserted them;
\* Victim on a replacer that holds no frame returns false, writes nothing
\* through its parameter and changes nothing; otherwise it returns true
\* with the frame of the earliest Unpin and leaves the others in their order.
C15_VictimIsOldest ==
    LET v == Victim(lru.replacer)
    IN /\ VictimOrder(lru.replacer) = lru.order
       /\ lru.order = <<>> =>
             ~v.ok /\ v.frame_id = NULLPTR /\ v.replacer = lru.replacer
       /\ lru.order # <<>> =>
             /\ v.ok
             /\ v.frame_id = Head(lru.order)
             /\ VictimOrder(v.replacer) = Tail(lru.order)

\* C15 witness: the replacer holds three frames that were not unpinned in
\* the order of their indices, after a Victim call has handed out the
\* fourth.
C15_Witness ==
    /\ Len(lru.order) = 3
    /\ lru.order[1] > lru.order[2]
    /\ lru.out # NULLPTR
    /\ lru.out \notin Range(lru.order)

\* C16: Unpin of a frame the replacer holds and Pin of a frame it does not
\* hold change neither the order in which Victim hands the frames out nor
\* Size(); Pin of a frame it holds removes that frame and no other, keeping
\* the order of the rest; Size() is the number of frames held.
C16_PinUnpin ==
    /\ Size(lru.replacer) = Len(lru.order)
    /\ \A frame_id \in 0..(LRUPages - 1) :
          IF frame_id \in Range(lru.order)
          THEN /\ VictimOrder(Unpin(lru.replacer, frame_id)) = lru.order
               /\ Size(Unpin(lru.replacer, frame_id)) = Size(lru.replacer)
               /\ VictimOrder(Pin(lru.replacer, frame_id))
                     = SeqWithout(lru.order, frame_id)
               /\ Size(Pin(lru.replacer, frame_id)) = Size(lru.replacer) - 1
          ELSE /\ VictimOrder(Pin(lru.replacer, frame_id)) = lru.order
               /\ Size(Pin(lru.replacer, frame_id)) = Size(lru.replacer)
               /\ VictimOrder(Unpin(lru.replacer, frame_id))
                     = Append(lru.order, frame_id)

\* C16 witness: the replacer holds three frames, so that Pin can remove the
\* least recently used, the most recently used and the one between them,
\* and there is one frame it does not hold.
C16_Witness ==
    /\ Len(lru.order) = LRUPages - 1
    /\ lru.order[1] < lru.order[2]
    /\ lru.order[2] > lru.order[3]

\* C17: a NewPage call on the parallel pool leaves the cursor one further,
\* modulo the number of instances, than it found it, whether it returns a
\* page or not; and the first num_instances_ NewPage calls on a fresh pool
\* return ids whose residues modulo num_instances_ are all different.
C17_RoundRobin ==
    pbpm.pc = "idle" =>
       /\ \A r \in {ParallelNewPgImp(pbpm.obj)} :
             r.pbpm.start_instance_
                = (pbpm.obj.start_instance_ + 1) % pbpm.obj.num_instances_
       /\ (pbpm.only_news /\ Len(pbpm.news) = ParNumInstances) =>
             {pbpm.news[k] % ParNumInstances : k \in DOMAIN pbpm.news}
                = 0..(ParNumInstances - 1)

\* what forwarding a call to the instance of the page comes to: r is what
\* the pool yields, b what the instance yields
ForwardedTo(r, page_id, b) ==
    /\ r.asserts
    /\ r.ret = b.ret
    /\ r.pbpm = [pbpm.obj EXCEPT !.bpms_[page_id % ParNumInstances] = b.bpm]

\* C18: for every id NewPage has returned, FetchPage, UnpinPage, FlushPage
\* and DeletePage pass their assert, call the instance id mod num_instances_
\* and return what it returns, wherever the cursor stands.
C18_Forwarding ==
    /\ pbpm.pc # "aborted"
    /\ pbpm.pc = "idle" =>
          \A page_id \in ParIds :
             \A b \in {pbpm.obj.bpms_[page_id % ParNumInstances]} :
                /\ b # NULLBPM
                /\ ForwardedTo(ParallelFetchPgImp(pbpm.obj, page_id), page_id,
                               FetchPgImp(b, page_id))
                /\ \A is_dirty \in BOOLEAN :
                      ForwardedTo(ParallelUnpinPgImp(pbpm.obj, page_id, is_dirty),
                                  page_id, UnpinPgImp(b, page_id, is_dirty))
                /\ ForwardedTo(ParallelFlushPgImp(pbpm.obj, page_id), page_id,
                               FlushPgImp(b, page_id))
                /\ ForwardedTo(ParallelDeletePgImp(pbpm.obj, page_id), page_id,
                               DeletePgImp(b, page_id))

\* the page is resident in s and its frame is flagged dirty
IsDirtyIn(s, page_id) ==
    /\ page_id \in DOMAIN s.page_table_
    /\ s.pages_[s.page_table_[page_id]].is_dirty_

\* C19: in every reachable state of the instance, a resident page whose
\* dirty flag is set keeps it through UnpinPage(id, false), whether that
\* call succeeds or not, through FetchPage of the page and through
\* UnpinPage(.., false) of any other page.
C19_DirtySticky ==
    \A page_id \in Resident :
       IsDirtyIn(bpm, page_id) =>
          /\ IsDirtyIn(FetchPgImp(bpm, page_id).bpm, page_id)
          /\ \A other \in OwnIds :
                IsDirtyIn(UnpinPgImp(bpm, other, FALSE).bpm, page_id)

\* C19 witness: a page was unpinned dirty and fetched again, so that it is
\* dirty and pinned and an UnpinPage(id, false) on it succeeds, while
\* another dirty page is unpinned, so that UnpinPage(id, false) on it fails.
C19_Witness ==
    \E p, q \in Resident :
       /\ IsDirtyIn(bpm, p) /\ bpm.pages_[bpm.page_table_[p]].pin_count_ > 0
       /\ IsDirtyIn(bpm, q) /\ bpm.pages_[bpm.page_table_[q]].pin_count_ = 0

\* C20: an UnpinPage call that returns false leaves the instance as it
\* found it: dirty flags, pin counts and replacer, for both values of
\* is_dirty.
C20_FailedUnpin ==
    \A page_id \in OwnIds : \A is_dirty \in BOOLEAN :
       \A r \in {UnpinPgImp(bpm, page_id, is_dirty)} :
          ~r.ret => /\ r.bpm.pages_ = bpm.pages_
                    /\ r.bpm.replacer_ = bpm.replacer_

\* the thread is about to read the directory after it has taken the table
\* latch: to find the bucket of its key, or to decide on a split or a merge
ReadsDirectory(th) ==
    \/ th.pc = "GetValue" /\ th.line = 104
    \/ th.pc = "Insert" /\ th.line = 129
    \/ th.pc = "SplitInsert" /\ th.line \in {156, 159}
    \/ th.pc = "Remove" /\ th.line \in {257, 264, 268}
    \/ th.pc = "Merge" /\ th.line \in {295, 298, 299, 307}

\* the thread has the result of a GetValue in its hands
HasResult(th) ==
    th.op = "GetValue" /\ (th.pc = "idle" \/ (th.pc = "GetValue" /\ th.line > 108))

AllLatches == {latches.table_latch_} \cup {latches.pages_[f] : f \in DOMAIN latches.pages_}

\* C23: a thread that has returned from a call of the table holds neither
\* the table latch nor a page latch in any mode, and no latch is ever
\* released more often in a mode than it was acquired in that mode
C23_LatchesReleased ==
    /\ \A t \in Threads :
          threads[t].pc = "idle" =>
             \A latch \in AllLatches : latch.r[t] = 0 /\ latch.w[t] = 0
    /\ \A t \in Threads :
          \A latch \in AllLatches : latch.r[t] >= 0 /\ latch.w[t] >= 0

\* the writer has returned from SplitInsert because NewPage failed (line
\* 191) and a reader has returned from GetValue
C23_Witness ==
    /\ threads[Writer].pc = "idle" /\ threads[Writer].line = 189
    /\ Directory.global_depth_ = 1
    /\ \E t \in Readers : threads[t].pc = "idle" /\ threads[t].line = 116

\* the slots of the directory that hold the bucket being split or its new
\* bucket, while a call is inside the loop of SplitInsert
SplitSlots ==
    LET dir == AsDirectory(Data(bpm, ht.locals.dir_page))
    IN {i \in 0..(DirSize(dir) - 1) :
          GetBucketPageId(dir, i) \in {GetPageId(bpm, ht.locals.bucket_page),
                                       ht.locals.split_bucket_page_id}}

\* C25: while SplitInsert redirects the slots of a bucket of local depth d,
\* GetLocalHighBit of the slot it is at is 1 << local depth of that slot (as
\* it is before or after the slot's increment), the slots of the bucket and
\* of the new bucket have local depth d or d + 1 (they differ by at most
\* one), and a slot that holds the new bucket is the split image of a slot
\* of the old one: it has the bit of GetLocalHighBit set.
C25_SplitImage ==
    ht.pc = "SplitInsert" =>
       LET dir == AsDirectory(Data(bpm, ht.locals.dir_page))
           i == ht.locals.bucket_idx
       IN /\ i < DirSize(dir) =>
                \/ GetLocalHighBit(dir, i) = 2 ^ GetLocalDepth(dir, i)
                \/ /\ GetLocalDepth(dir, i) > 0
                   /\ GetLocalHighBit(dir, i) = 2 ^ (GetLocalDepth(dir, i) - 1)
          /\ \A j \in SplitSlots : \A k \in SplitSlots :
                GetLocalDepth(dir, j) <= GetLocalDepth(dir, k) + 1

(***************************************************************************)
(* One bucket page on its own: a page of zero bytes that takes any         *)
(* sequence of Insert, Remove and RemoveAt.                                *)
(***************************************************************************)
BucketInit ==
    /\ bpage = [pc |-> "bucket", page |-> ZeroBucket]
    /\ bpm = NoInstance
    /\ new_ids = <<>>
    /\ last_unpin = <<>>
    /\ unflagged = {}
    /\ ht = NoTable
    /\ M = <<>>
    /\ lru = NoReplacer
    /\ pbpm = NoPool
    /\ flush = NoFlush
    /\ threads = NoThreads
    /\ latches = NoThreads

PageInsert(key, value) ==
    /\ bpage.pc = "bucket"
    /\ bpage' = [bpage EXCEPT !.page = BucketInsert(bpage.page, key, value).bucket]
    /\ UNCHANGED <<bpmVars, htVars, lruVars, pbpmVars, flushVars, thrVars>>

PageRemove(key, value) ==
    /\ bpage.pc = "bucket"
    /\ bpage' = [bpage EXCEPT !.page = BucketRemove(bpage.page, key, value, 0).bucket]
    /\ UNCHANGED <<bpmVars, htVars, lruVars, pbpmVars, flushVars, thrVars>>

PageRemoveAt(bucket_idx) ==
    /\ bpage.pc = "bucket"
    /\ bpage' = [bpage EXCEPT !.page = RemoveAt(bpage.page, bucket_idx)]
    /\ UNCHANGED <<bpmVars, htVars, lruVars, pbpmVars, flushVars, thrVars>>

BucketNext ==
    \/ \E key \in Keys : \E value \in Values : PageInsert(key, value)
    \/ \E key \in Keys : \E value \in Values : PageRemove(key, value)
    \/ \E bucket_idx \in Slots : PageRemoveAt(bucket_idx)

BucketSpec == BucketInit /\ [][BucketNext]_vars

\* the slots of a bucket page whose readable bit is set
ReadableSlots(b) == {i \in Slots : IsReadable(b, i)}

\* the slots of a bucket page whose occupied bit is set
OccupiedSlots(b) == {i \in Slots : IsOccupied(b, i)}

\* C27: after any sequence of Insert, Remove and RemoveAt on a bucket page,
\* IsEmpty is true iff no slot is readable, IsFull is true iff every slot
\* is occupied and readable, and NumReadable is the number of readable
\* slots.
C27_OccupancyQueries ==
    bpage.pc = "bucket" =>
       /\ IsEmpty(bpage.page) <=> ReadableSlots(bpage.page) = {}
       /\ IsFull(bpage.page) <=>
             (OccupiedSlots(bpage.page) = Slots /\ ReadableSlots(bpage.page) = Slots)
       /\ NumReadable(bpage.page) = Cardinality(ReadableSlots(bpage.page))

\* the slot Insert is to write: the first tombstone, else the first slot
\* that is not occupied
FirstFree(b) ==
    LET tombstones == OccupiedSlots(b) \ ReadableSlots(b)
        free == IF tombstones # {} THEN tombstones ELSE Slots \ OccupiedSlots(b)
    IN CHOOSE i \in free : \A j \in free : i <= j

\* C28: after any sequence of Insert, Remove and RemoveAt on a zeroed
\* bucket page, a readable slot is occupied, the occupied slots are a prefix
\* of the slots, no operation clears an occupied bit, an Insert that stores
\* its pair writes it to the first tombstone or else to the first slot that
\* is not occupied and changes no other slot, and GetValue, whose scan stops
\* at the first slot that is not occupied, returns the value of every
\* readable slot that holds the key.
C28_OccupiedPrefix ==
    bpage.pc = "bucket" =>
       LET b == bpage.page
       IN /\ ReadableSlots(b) \subseteq OccupiedSlots(b)
          /\ \A i \in OccupiedSlots(b) : \A j \in Slots : j < i => j \in OccupiedSlots(b)
          /\ \A key \in Keys : \A value \in Values :
                /\ OccupiedSlots(b) \subseteq OccupiedSlots(BucketInsert(b, key, value).bucket)
                /\ OccupiedSlots(b) \subseteq
                      OccupiedSlots(BucketRemove(b, key, value, 0).bucket)
                /\ \A r \in {BucketInsert(b, key, value)} :
                      r.ret =>
                         /\ r.bucket = [b EXCEPT
                                          !.array_[FirstFree(b)] =
                                             [first |-> key, second |-> value],
                                          !.occupied_[FirstFree(b)] = TRUE,
                                          !.readable_[FirstFree(b)] = TRUE]
                         /\ ~IsReadable(b, FirstFree(b))
          /\ \A i \in Slots : OccupiedSlots(b) \subseteq OccupiedSlots(RemoveAt(b, i))
          /\ \A key \in Keys :
                \A g \in {BucketGetValue(b, key)} :
                   /\ Range(g.result) =
                         {ValueAt(b, i) : i \in {j \in ReadableSlots(b) : KeyAt(b, j) = key}}
                   /\ Len(g.result) =
                         Cardinality({j \in ReadableSlots(b) : KeyAt(b, j) = key})

\* a pair was removed from slot 0 while slot 1 holds a record, and the
\* next Insert is to go to the tombstone in slot 0
C28_Witness ==
    /\ bpage.pc = "bucket"
    /\ IsOccupied(bpage.page, 0) /\ ~IsReadable(bpage.page, 0)
    /\ IsReadable(bpage.page, 1)
    /\ \E key \in Keys : \E value \in Values :
          /\ BucketInsert(bpage.page, key, value).ret
          /\ IsReadable(BucketInsert(bpage.page, key, value).bucket, 0)

\* is_dirty_ of the frame that holds a page
IsDirty(s, page_id) == s.pages_[s.page_table_[page_id]].is_dirty_

\* C29: an Insert that does not split, called when every page of the pool
\* is clean (FlushAllPages has just returned), leaves the bucket page dirty
\* if and only if the bucket's Insert returned true, and leaves the
\* directory page clean: the bucket page is unpinned with is_dirty = true
\* exactly if the pair was stored and the directory page with is_dirty =
\* false.
C29_InsertUnpinsDirty ==
    ht.pc = "idle" =>
       \A key \in Keys : \A value \in Values :
          \A s \in {FlushAllPgsImp(bpm).bpm} :
             \A r \in {Insert(Ctx(s, ht), key, value)} :
                (~IsFull(BucketOf(key)) /\ r.pc = "idle") =>
                   /\ IsDirty(r.bpm, KeyToPageId(key, Directory)) = r.ret
                   /\ ~IsDirty(r.bpm, ht.directory_page_id_)

(***************************************************************************)
(* FlushAllPgsImp called while other threads call the instance.  The loop  *)
(* walks page_table_ without latch_; each pass copies the entry            *)
(* [page_id, frame_id] and only then takes latch_ for the body.  A step is *)
(* begin(), the copy of the next entry, or one body under latch_; the      *)
(* other operations are atomic under latch_ and run between the steps.     *)
(* Walking a std::unordered_map that another thread changes is undefined:  *)
(* the walk may yield any entry that is in the map now or was in it at     *)
(* begin(), and may end once the map has changed.                          *)
(***************************************************************************)
NoEntry == [page_id |-> INVALID_PAGE_ID, frame_id |-> NULLPTR]

\* the entries of a page table
Entries(page_table) ==
    {[page_id |-> p, frame_id |-> page_table[p]] : p \in DOMAIN page_table}

FlushIdle ==
    [pc |-> "idle", table |-> {}, visited |-> {}, entry |-> NoEntry,
     wrote |-> NoEntry, held |-> INVALID_PAGE_ID]

FlushInit ==
    /\ bpm = BufferPoolManagerInstance(PoolSize, NumInstances, InstanceIndex)
    /\ flush = FlushIdle
    /\ new_ids = <<>>
    /\ last_unpin = <<>>
    /\ unflagged = {}
    /\ ht = NoTable
    /\ M = <<>>
    /\ lru = NoReplacer
    /\ pbpm = NoPool
    /\ bpage = NoBucket
    /\ threads = NoThreads
    /\ latches = NoThreads

\* line 67: page_table_.begin()
FlushAllBegin ==
    /\ flush.pc = "idle"
    /\ flush' = [FlushIdle EXCEPT !.pc = "for", !.table = Entries(bpm.page_table_)]
    /\ UNCHANGED <<bpmVars, htVars, lruVars, pbpmVars, pageVars, thrVars>>

\* line 67: auto [page_id, frame_id] is the next entry
FlushAllNext(e) ==
    /\ flush.pc = "for"
    /\ e \in Entries(bpm.page_table_) \cup flush.table
    /\ e.page_id \notin flush.visited
    /\ flush' = [flush EXCEPT !.pc = "body", !.entry = e,
                              !.visited = @ \cup {e.page_id}]
    /\ UNCHANGED <<bpmVars, htVars, lruVars, pbpmVars, pageVars, thrVars>>

\* lines 68-71 under latch_: the bytes of pages_[frame_id] are written as
\* page page_id; held is the id the frame holds at that moment
FlushAllBody ==
    /\ flush.pc = "body"
    /\ bpm' = [bpm EXCEPT
                 !.disk_manager_ = WritePage(@, flush.entry.page_id,
                                             bpm.pages_[flush.entry.frame_id].data_),
                 !.pages_[flush.entry.frame_id].is_dirty_ = FALSE]
    /\ flush' = [flush EXCEPT !.pc = "for", !.entry = NoEntry, !.wrote = flush.entry,
                              !.held = bpm.pages_[flush.entry.frame_id].page_id_]
    /\ UNCHANGED <<new_ids, last_unpin, unflagged, htVars, lruVars, pbpmVars, pageVars,
                                                                      thrVars>>

\* line 67: the walk has come to end()
FlushAllEnd ==
    /\ flush.pc = "for"
    /\ \/ \A e \in Entries(bpm.page_table_) : e.page_id \in flush.visited
       \/ Entries(bpm.page_table_) # flush.table
    /\ flush' = FlushIdle
    /\ UNCHANGED <<bpmVars, htVars, lruVars, pbpmVars, pageVars, thrVars>>

\* another thread calls NewPage, FetchPage, UnpinPage or DeletePage, each
\* atomic under latch_, or writes into a page it has pinned
OtherNewPage ==
    /\ flush.pc # "none"
    /\ bpm.next_page_id_ < InstanceIndex + FlushMaxPages * NumInstances
    /\ bpm' = NewPgImp(bpm).bpm
    /\ UNCHANGED <<new_ids, last_unpin, unflagged, htVars, lruVars, pbpmVars, pageVars,
                                                                      flushVars, thrVars>>

OtherFetchPage(page_id) ==
    /\ flush.pc # "none"
    /\ page_id < bpm.next_page_id_
    /\ page_id \in DOMAIN bpm.page_table_ =>
          bpm.pages_[bpm.page_table_[page_id]].pin_count_ < MaxPins
    /\ bpm' = FetchPgImp(bpm, page_id).bpm
    /\ UNCHANGED <<new_ids, last_unpin, unflagged, htVars, lruVars, pbpmVars, pageVars,
                                                                      flushVars, thrVars>>

OtherUnpinPage(page_id, is_dirty) ==
    /\ flush.pc # "none"
    /\ bpm' = UnpinPgImp(bpm, page_id, is_dirty).bpm
    /\ UNCHANGED <<new_ids, last_unpin, unflagged, htVars, lruVars, pbpmVars, pageVars,
                                                                      flushVars, thrVars>>

OtherDeletePage(page_id) ==
    /\ flush.pc # "none"
    /\ bpm' = DeletePgImp(bpm, page_id).bpm
    /\ UNCHANGED <<new_ids, last_unpin, unflagged, htVars, lruVars, pbpmVars, pageVars,
                                                                      flushVars, thrVars>>

OtherWriteData(page_id, d) ==
    /\ flush.pc # "none"
    /\ page_id \in DOMAIN bpm.page_table_
    /\ bpm.pages_[bpm.page_table_[page_id]].pin_count_ > 0
    /\ bpm' = [bpm EXCEPT !.pages_[bpm.page_table_[page_id]].data_ = RawPage(d)]
    /\ UNCHANGED <<new_ids, last_unpin, unflagged, htVars, lruVars, pbpmVars, pageVars,
                                                                      flushVars, thrVars>>

FlushIds == {InstanceIndex + k * NumInstances : k \in 0..(FlushMaxPages - 1)}

FlushNext ==
    \/ FlushAllBegin
    \/ \E p \in FlushIds : \E f \in 0..(PoolSize - 1) :
          FlushAllNext([page_id |-> p, frame_id |-> f])
    \/ FlushAllBody
    \/ FlushAllEnd
    \/ OtherNewPage
    \/ \E page_id \in FlushIds : OtherFetchPage(page_id)
    \/ \E page_id \in FlushIds : \E is_dirty \in BOOLEAN : OtherUnpinPage(page_id, is_dirty)
    \/ \E page_id \in FlushIds : OtherDeletePage(page_id)
    \/ \E page_id \in FlushIds : \E d \in 1..MaxData : OtherWriteData(page_id, d)

FlushSpec == FlushInit /\ [][FlushNext]_vars

\* C30: FlushAllPages is atomic: while its walk of the page table is under
\* way no other operation changes the page table, and every page it writes
\* is written under the id that the frame holds at the moment of the write.
C30_FlushAllAtomic ==
    /\ flush.pc \in {"for", "body"} => Entries(bpm.page_table_) = flush.table
    /\ flush.wrote # NoEntry => flush.wrote.page_id = flush.held

(***************************************************************************)
(* ParallelBufferPoolManager::NewPgImp called by several threads.  The     *)
(* method takes no lock: start_instance_ and bpms_ are read and written    *)
(* one access at a time, and only NewPage of an instance is atomic (under  *)
(* that instance's latch_).  heap holds every BufferPoolManagerInstance    *)
(* that new has created; bpms_[i] is 0 (nullptr) or the place of an        *)
(* instance in heap.  Indexing bpms_ past its end and calling NewPage      *)
(* through nullptr are undefined: the thread's pc becomes "undefined".     *)
(* given lists the page ids the calls have returned; twice tells that a    *)
(* call returned an id that was returned before.                           *)
(***************************************************************************)
Callers == 1..ParNumCallers

NoNewPg == [pc |-> "idle", line |-> 0, i |-> 0, read |-> 0, calls |-> 0]

ParThrInit ==
    /\ pbpm = [pc |-> "threads", num_instances_ |-> ParNumInstances,
               pool_size_ |-> ParPoolSize, start_instance_ |-> 0,
               bpms_ |-> [i \in 0..(ParNumInstances - 1) |-> 0],
               heap |-> <<>>, given |-> {}, twice |-> FALSE,
               thr |-> [t \in Callers |-> NoNewPg]]
    /\ bpm = NoInstance
    /\ new_ids = <<>>
    /\ last_unpin = <<>>
    /\ unflagged = {}
    /\ ht = NoTable
    /\ M = <<>>
    /\ lru = NoReplacer
    /\ bpage = NoBucket
    /\ flush = NoFlush
    /\ threads = NoThreads
    /\ latches = NoThreads

\* return ret: the call of thread t is over
NewPgReturns(p, t, n) ==
    [p EXCEPT !.thr[t].pc = "idle", !.thr[t].line = 0,
              !.given = IF n.ret # NULLPTR THEN @ \cup {n.page_id} ELSE @,
              !.twice = @ \/ (n.ret # NULLPTR /\ n.page_id \in p.given)]

\* bpms_[idx]->NewPage(page_id) and the test of ret that follows it: the
\* call returns the page, or goes on at line next with i advanced by step
NewPageThrough(p, t, idx, next, step) ==
    IF idx >= p.num_instances_ \/ p.bpms_[idx] = 0
    THEN [p EXCEPT !.thr[t].pc = "undefined"]
    ELSE Only({IF n.ret # NULLPTR
               THEN NewPgReturns([p EXCEPT !.heap[p.bpms_[idx]] = n.bpm], t, n)
               ELSE [p EXCEPT !.thr[t].line = next, !.thr[t].i = @ + step] :
                  n \in {NewPgImp(p.heap[p.bpms_[idx]])}})

\* lines 78-79: bpms_[start_instance_] = new BufferPoolManagerInstance(..)
NewInstance(p, t) ==
    IF p.start_instance_ >= p.num_instances_
    THEN [p EXCEPT !.thr[t].pc = "undefined"]
    ELSE [p EXCEPT !.thr[t].line = 81,
                   !.heap = Append(@, BufferPoolManagerInstance(
                                         p.pool_size_, p.num_instances_,
                                         p.start_instance_)),
                   !.bpms_[p.start_instance_] = Len(p.heap) + 1]

\* one step of thread t inside NewPgImp, by the line it is at
NewPgStep(p, t) ==
    LET th == p.thr[t]
    IN CASE th.line = 76 ->
               IF p.start_instance_ < p.num_instances_
               THEN [p EXCEPT !.thr[t].line = 77]
               ELSE [p EXCEPT !.thr[t].line = 88, !.thr[t].i = 0]
         [] th.line = 77 ->
               IF p.start_instance_ >= p.num_instances_
               THEN [p EXCEPT !.thr[t].pc = "undefined"]
               ELSE IF p.bpms_[p.start_instance_] = 0
               THEN [p EXCEPT !.thr[t].line = 78]
               ELSE [p EXCEPT !.thr[t].line = 81]
         [] th.line = 78 -> NewInstance(p, t)
         [] th.line = 81 -> NewPageThrough(p, t, p.start_instance_, 85, 0)
         \* start_instance_ += 1: the read, then the write
         [] th.line = 85 -> [p EXCEPT !.thr[t].line = 86,
                                      !.thr[t].read = p.start_instance_]
         [] th.line = 86 -> [p EXCEPT !.thr[t].line = 76,
                                      !.start_instance_ = th.read + 1]
         [] th.line = 88 ->
               IF th.i < p.num_instances_
               THEN [p EXCEPT !.thr[t].line = 89]
               ELSE NewPgReturns(p, t, [ret |-> NULLPTR, page_id |-> INVALID_PAGE_ID])
         [] th.line = 89 -> NewPageThrough(p, t, th.i, 88, 1)

\* thread t calls NewPage
ParCallNewPage(t) ==
    /\ pbpm.pc = "threads"
    /\ \A u \in Callers : pbpm.thr[u].pc # "undefined"
    /\ pbpm.thr[t].pc = "idle"
    /\ pbpm.thr[t].calls < ParCallsEach
    /\ pbpm' = [pbpm EXCEPT !.thr[t] = [NoNewPg EXCEPT !.pc = "NewPgImp", !.line = 76,
                                                       !.calls = pbpm.thr[t].calls + 1]]
    /\ UNCHANGED <<bpmVars, htVars, lruVars, pageVars, flushVars, thrVars>>

\* thread t takes its next step
ParRun(t) ==
    /\ pbpm.pc = "threads"
    /\ \A u \in Callers : pbpm.thr[u].pc # "undefined"
    /\ pbpm.thr[t].pc = "NewPgImp"
    /\ pbpm' = NewPgStep(pbpm, t)
    /\ UNCHANGED <<bpmVars, htVars, lruVars, pageVars, flushVars, thrVars>>

ParThrNext ==
    \/ \E t \in Callers : ParCallNewPage(t)
    \/ \E t \in Callers : ParRun(t)

ParThrSpec == ParThrInit /\ [][ParThrNext]_vars

\* the instances created for index i
InstancesOf(i) == {k \in DOMAIN pbpm.heap : pbpm.heap[k].instance_index_ = i}

\* C31: with several threads calling NewPage of one parallel buffer pool,
\* every index has at most one BufferPoolManagerInstance created for it, no
\* instance that was created is lost from bpms_, no two calls return the
\* same page id, and no call indexes bpms_ past its end or calls through an
\* entry that is still nullptr.
C31_ConcurrentNewPage ==
    pbpm.pc = "threads" =>
       /\ \A i \in DOMAIN pbpm.bpms_ :
             /\ Cardinality(InstancesOf(i)) <= 1
             /\ InstancesOf(i) \subseteq {pbpm.bpms_[i]}
       /\ ~pbpm.twice
       /\ \A t \in Callers : pbpm.thr[t].pc # "undefined"

\* the bucket pages whose latch the statement a thread is at requests
\* inside a method of HashTableBucketPage (IsFull, IsEmpty, GetPageId and
\* GetValue take the page's read latch, Insert, Remove and RemoveAt its
\* write latch)
RequestsLatchOf(th) ==
    CASE th.pc = "GetValue" /\ th.line \in {108, 112} -> {th.locals.bucket_page}
      [] th.pc = "Insert" /\ th.line \in {133, 134, 136, 145} -> {th.locals.bucket_page}
      [] th.pc = "SplitInsert" /\ th.line \in {161, 185, 199, 237} ->
            {th.locals.bucket_page}
      [] th.pc = "SplitInsert" /\ th.line = 221 ->
            {th.locals.bucket_page, th.locals.split_bucket_page}
      [] th.pc = "SplitInsert" /\ th.line = 238 -> {th.locals.split_bucket_page}
      [] th.pc = "Remove" /\ th.line \in {261, 268, 280} -> {th.locals.bucket_page}
      [] th.pc = "Merge" /\ th.line \in {307, 312, 343} ->
            {th.locals.bucket_page, th.locals.merge_bucket_page}
      [] th.pc = "Merge" /\ th.line \in {313, 344} -> {th.locals.merge_bucket_page}
      [] OTHER -> {}

\* C32: no thread is at a statement that requests the read or the write
\* latch of a page whose write latch the thread holds.
C32_NoNestedLatch ==
    \A t \in Threads :
       \A page \in RequestsLatchOf(threads[t]) : latches.pages_[page].w[t] = 0

====
